---- MODULE Spec2Model ----
(***************************************************************************)
(* Session coordination of the doorbell firmware: the multi-client TCP     *)
(* control server (device_manager), the talk arbitration, the paired audio *)
(* pipelines (audio_pipeline_manager) and the video streamer               *)
(* (video_manager), as a state machine of FreeRTOS tasks.                  *)
(*                                                                         *)
(* One task per accepted client (_client_handler_task), one accept loop    *)
(* (_device_manager_task), one video streaming task while streaming.  A    *)
(* step of the model is a piece of a task between two blocking points; a   *)
(* critical section that contains no blocking call is one step.            *)
(***************************************************************************)
EXTENDS Integers, Sequences, FiniteSets, TLC

----------------------------------------------------------------------------
(* Program constants *)

MAX_CLIENTS == 5

INACTIVE_CLIENT_INDEX == -1

CMD_REQUEST_TALK == 0

CMD_END_TALK == 1

CMD_GRANT_TALK == 2

CMD_DENY_TALK == 3

CMD_TALK_ENDED == 4

CMD_TALK_DID_NOT_END == 5

CMD_DOORBELL_RING == 6

CMD_OPEN_DOOR == 7

(* A command value outside device_command_t (the default: branch). *)
CMD_UNKNOWN == 8

(* No response (yet) to the latest command. *)
NO_REPLY == -1

(* NULL and a valid handle returned by the audio framework. *)
NULL == 0

HANDLE == 1

(* The value of an unowned FreeRTOS mutex. *)
NO_OWNER == -1

(* The descriptor socket() returns for the video streamer. *)
VIDEO_SOCK == 9

----------------------------------------------------------------------------
(* Bounds of the exploration *)

(* Talk scenario: few connections, several commands. *)
TalkConns == 2

TalkCmds == 3

(* Crowd scenario: more connections than slots, no command. *)
CrowdExtra == 1

(* Frames the camera delivers. *)
MaxFrames == 1

Slots == 0 .. (MAX_CLIENTS - 1)

Commands == {CMD_REQUEST_TALK, CMD_END_TALK, CMD_OPEN_DOOR, CMD_UNKNOWN}

----------------------------------------------------------------------------
VARIABLES
    clients,              \* tcp_client_t clients[MAX_CLIENTS]
    active_talker_index,  \* -1 means no one talking
    talker_mutex,         \* owner of talker_mutex: a slot index, or NO_OWNER
    audio_info,           \* global_audio_state_t
    video_info,           \* video_manager_info_t
    video_pc,             \* _video_streaming_task: "none" | "loop" | "frame" | "exit"
    handler_pc,           \* per slot: position of _client_handler_task
    handler_ctx,          \* per slot: the caller of the media teardown in progress
    client_ip,            \* per slot: local client_ip of _start_audio_and_video_for_client
    accept_pc,            \* _device_manager_task: "accept" | "reject"
    client_sock,          \* accept loop locals: [sock, ip] of the accepted connection
    start_ret,            \* per slot: what _start_audio_and_video_for_client returned for the latest command
    last_reply,           \* per slot: the response to the peer's latest command
    outstanding,          \* slots whose peer got GRANT_TALK and has not yet ended/disconnected
    conns_left,           \* connections the environment will still open
    cmds_left,            \* commands the environment will still send
                          \* (bounds of the talk scenario or of the crowd scenario)
    bell,                 \* broadcast_doorbell_ring examined on its own: loop position and sends
    codec,                \* the packet headers examined on their own: fields, buffer, decoded fields
    frag,                 \* _video_manager_send_frame examined on its own: the packets of one frame
    udp                   \* the udp_stream elements examined on their own

vars == <<clients, active_talker_index, talker_mutex, audio_info, video_info,
          video_pc, handler_pc, handler_ctx, client_ip, start_ret, accept_pc,
          client_sock, last_reply, outstanding, conns_left, cmds_left,
          bell, codec, frag, udp>>

(* The variables of the session coordination. *)
sessionVars == <<clients, active_talker_index, talker_mutex, audio_info, video_info,
                 video_pc, handler_pc, handler_ctx, client_ip, start_ret, accept_pc,
                 client_sock, last_reply, outstanding, conns_left, cmds_left>>

(* The variables of the components examined on their own. *)
auxVars == <<bell, codec, frag, udp>>

coordVars == <<clients, active_talker_index, talker_mutex>>

mediaVars == <<audio_info, video_info, video_pc>>

envVars == <<conns_left, cmds_left>>

----------------------------------------------------------------------------
(* Initial state: device_manager_init and video_manager_init have run. *)

FreeClient == [socket |-> 0, ip_address |-> 0, is_connected |-> FALSE, task_handle |-> NULL]

AudioInit ==
    [pipeline_send |-> NULL, pipeline_recv |-> NULL,
     i2s_reader |-> NULL, udp_writer |-> NULL, udp_reader |-> NULL, i2s_writer |-> NULL,
     remote_addr |-> 0, active_client_index |-> INACTIVE_CLIENT_INDEX]

VideoInit ==
    [is_streaming |-> FALSE, stop_requested |-> FALSE, remote_addr |-> 0,
     udp_socket |-> -1, frame_id |-> 0]

Budgets ==
    { <<TalkConns, TalkCmds>>, <<MAX_CLIENTS + CrowdExtra, 0>> }

(* The session coordination after start-up, with the environment's budget. *)
SessionInit(budgets) ==
    /\ clients = [i \in Slots |-> FreeClient]
    /\ active_talker_index = INACTIVE_CLIENT_INDEX
    /\ talker_mutex = NO_OWNER
    /\ audio_info = AudioInit
    /\ video_info = VideoInit
    /\ video_pc = "none"
    /\ handler_pc = [i \in Slots |-> "none"]
    /\ handler_ctx = [i \in Slots |-> "none"]
    /\ client_ip = [i \in Slots |-> 0]
    /\ start_ret = [i \in Slots |-> "none"]
    /\ accept_pc = "accept"
    /\ client_sock = [sock |-> -1, ip |-> 0]
    /\ last_reply = [i \in Slots |-> NO_REPLY]
    /\ outstanding = {}
    /\ \E b \in budgets : conns_left = b[1] /\ cmds_left = b[2]

(* The components examined on their own are at rest. *)
BellIdle == [pc |-> "idle", i |-> 0, sends |-> <<>>]

CodecIdle == [pc |-> "idle"]

FragIdle == [pc |-> "idle"]

UdpIdle == [pc |-> "idle"]

Init ==
    /\ SessionInit(Budgets)
    /\ bell = BellIdle
    /\ codec = CodecIdle
    /\ frag = FragIdle
    /\ udp = UdpIdle

----------------------------------------------------------------------------
(* Helpers *)

Goto(i, label) == handler_pc' = [handler_pc EXCEPT ![i] = label]

(* send(clients[i].socket, &response, ...) as seen by the peer of slot i. *)
Send(i, response) == last_reply' = [last_reply EXCEPT ![i] = response]

(* Descriptors of the control connections that are open. *)
OpenSocks ==
    {clients[i].socket : i \in {j \in Slots : clients[j].is_connected}}
        \cup (IF accept_pc = "accept" THEN {} ELSE {client_sock.sock})

(* accept() hands out the lowest descriptor that is not open. *)
NextSock == CHOOSE s \in 1 .. (MAX_CLIENTS + 1) :
                /\ s \notin OpenSocks
                /\ \A t \in 1 .. (MAX_CLIENTS + 1) : t \notin OpenSocks => s <= t

(* The remote host behind the connection with descriptor s: one per connection. *)
PeerAddr(s) == s

FreeSlots == {i \in Slots : ~clients[i].is_connected}

----------------------------------------------------------------------------
(* _device_manager_task: the accept loop *)

(* A variant of _add_new_client that takes slot 0 over when no slot is free. *)
add_new_client_evicts(table, sock, ip) ==
    LET free == {i \in Slots : ~table[i].is_connected}
        i == IF free = {} THEN 0 ELSE CHOOSE k \in free : \A j \in free : k <= j IN
    [slot |-> i,
     table |-> [table EXCEPT ![i] = [socket |-> sock, ip_address |-> ip,
                                     is_connected |-> TRUE,
                                     task_handle |-> HANDLE]]]

(* _add_new_client, under clients_mutex: the first free slot takes the
   connection and its handler task is created.  The slot taken (-1: none was
   free) and the new slot table. *)
add_new_client(table, sock, ip) ==
    LET free == {i \in Slots : ~table[i].is_connected} IN
    IF free = {} THEN [slot |-> -1, table |-> table]
    ELSE LET i == CHOOSE k \in free : \A j \in free : k <= j IN
         [slot |-> i,
          table |-> [table EXCEPT ![i] = [socket |-> sock, ip_address |-> ip,
                                          is_connected |-> TRUE,
                                          task_handle |-> HANDLE]]]

(* An accept loop whose _add_new_client leaves the slot marked connected when
   the handler task could not be created. *)
device_manager_accept_keeps_connected ==
    /\ accept_pc = "accept"
    /\ conns_left > 0
    /\ conns_left' = conns_left - 1
    /\ LET sock == NextSock
           added == add_new_client(clients, sock, PeerAddr(sock)) IN
       \/ /\ added.slot # -1
          /\ clients' = added.table
          /\ Goto(added.slot, "recv")
          /\ UNCHANGED <<accept_pc, client_sock>>
       \/ /\ added.slot # -1
          /\ clients' = [added.table EXCEPT
                            ![added.slot].task_handle = clients[added.slot].task_handle]
          /\ accept_pc' = "reject"
          /\ client_sock' = [sock |-> sock, ip |-> PeerAddr(sock)]
          /\ UNCHANGED handler_pc
       \/ /\ added.slot = -1
          /\ clients' = added.table
          /\ accept_pc' = "reject"
          /\ client_sock' = [sock |-> sock, ip |-> PeerAddr(sock)]
          /\ UNCHANGED handler_pc
    /\ UNCHANGED <<active_talker_index, talker_mutex, mediaVars, handler_ctx,
                   client_ip, start_ret, last_reply, outstanding,
                   cmds_left>>
    /\ UNCHANGED auxVars

(* One turn of the accept loop: accept() returns a connection from a remote
   host and _add_new_client places it, or fails and leaves it to be closed. *)
device_manager_accept ==
    /\ accept_pc = "accept"
    /\ conns_left > 0
    /\ conns_left' = conns_left - 1
    /\ LET sock == NextSock
           added == add_new_client(clients, sock, PeerAddr(sock)) IN
       \/ /\ added.slot # -1
          /\ clients' = added.table
          /\ Goto(added.slot, "recv")
          /\ UNCHANGED <<accept_pc, client_sock>>
       \/ (* xTaskCreate fails: the slot is given back, socket and address stay *)
          /\ added.slot # -1
          /\ clients' = [added.table EXCEPT
                            ![added.slot].is_connected = FALSE,
                            ![added.slot].task_handle = clients[added.slot].task_handle]
          /\ accept_pc' = "reject"
          /\ client_sock' = [sock |-> sock, ip |-> PeerAddr(sock)]
          /\ UNCHANGED handler_pc
       \/ (* no free slot *)
          /\ added.slot = -1
          /\ clients' = added.table
          /\ accept_pc' = "reject"
          /\ client_sock' = [sock |-> sock, ip |-> PeerAddr(sock)]
          /\ UNCHANGED handler_pc
    /\ UNCHANGED <<active_talker_index, talker_mutex, mediaVars, handler_ctx,
                   client_ip, start_ret, last_reply, outstanding,
                   cmds_left>>
    /\ UNCHANGED auxVars

(* _add_new_client returned false: close(client_sock), back to accept(). *)
device_manager_reject ==
    /\ accept_pc = "reject"
    /\ accept_pc' = "accept"
    /\ client_sock' = [sock |-> -1, ip |-> 0]
    /\ UNCHANGED <<coordVars, mediaVars, handler_pc, handler_ctx, client_ip, start_ret,
                   last_reply, outstanding, envVars>>
    /\ UNCHANGED auxVars

----------------------------------------------------------------------------
(* broadcast_doorbell_ring, under clients_mutex, sends are MSG_DONTWAIT *)

(* The slots the loop sends DOORBELL_RING to. *)
doorbell_sends(table) == {i \in Slots : table[i].is_connected}

(* The broadcast changes nothing on the device: its sends go to the peers. *)
broadcast_doorbell_ring ==
    /\ doorbell_sends(clients) \subseteq Slots
    /\ UNCHANGED vars

----------------------------------------------------------------------------
(* Talk arbitration, under talker_mutex *)

(* A variant of _request_talk_permission without the test of the holder. *)
request_talk_permission_unchecked(i, holder) ==
    [ret |-> TRUE, holder |-> i]

(* A variant of _release_talk_permission without the test of ownership. *)
release_talk_permission_any(i, holder) ==
    IF holder # INACTIVE_CLIENT_INDEX
    THEN [ret |-> TRUE, holder |-> INACTIVE_CLIENT_INDEX]
    ELSE [ret |-> FALSE, holder |-> holder]

(* A variant of _release_talk_permission that reports the release and keeps
   the holder. *)
release_talk_permission_keeps(i, holder) ==
    [ret |-> (holder = i), holder |-> holder]

(* A variant of _request_talk_permission that grants the holder's own
   request again. *)
request_talk_permission_regrants(i, holder) ==
    IF holder \in {INACTIVE_CLIENT_INDEX, i}
    THEN [ret |-> TRUE, holder |-> i]
    ELSE [ret |-> FALSE, holder |-> holder]

(* _request_talk_permission: the value it returns and the new holder. *)
request_talk_permission(i, holder) ==
    IF holder = INACTIVE_CLIENT_INDEX
    THEN [ret |-> TRUE, holder |-> i]
    ELSE [ret |-> FALSE, holder |-> holder]

(* _release_talk_permission: the value it returns and the new holder. *)
release_talk_permission(i, holder) ==
    IF holder = i
    THEN [ret |-> TRUE, holder |-> INACTIVE_CLIENT_INDEX]
    ELSE [ret |-> FALSE, holder |-> holder]

----------------------------------------------------------------------------
(* _client_handler_task: recv() and the dispatch of _handle_client_command *)

(* A door that opens for the talker only: OPEN_DOOR from another client gets
   DENY_TALK while the talk slot is held. *)
handler_recv_command_door_for_talker(i, command) ==
    /\ handler_pc[i] = "recv"
    /\ cmds_left > 0
    /\ cmds_left' = cmds_left - 1
    /\ \/ /\ command = CMD_REQUEST_TALK
          /\ Goto(i, "request_talk")
          /\ Send(i, NO_REPLY)
          /\ UNCHANGED outstanding
       \/ /\ command = CMD_END_TALK
          /\ Goto(i, "end_talk")
          /\ Send(i, NO_REPLY)
          /\ outstanding' = outstanding \ {i}
       \/ /\ command = CMD_OPEN_DOOR
          /\ Send(i, IF active_talker_index \in {INACTIVE_CLIENT_INDEX, i}
                        THEN CMD_OPEN_DOOR ELSE CMD_DENY_TALK)
          /\ UNCHANGED <<handler_pc, outstanding>>
       \/ /\ command \notin {CMD_REQUEST_TALK, CMD_END_TALK, CMD_OPEN_DOOR}
          /\ Send(i, NO_REPLY)
          /\ UNCHANGED <<handler_pc, outstanding>>
    /\ start_ret' = [start_ret EXCEPT ![i] = "none"]
    /\ UNCHANGED <<coordVars, mediaVars, handler_ctx, client_ip, accept_pc,
                   client_sock, conns_left>>
    /\ UNCHANGED auxVars

(* A handler that ends after the command it has dispatched. *)
handler_recv_command_once(i, command) ==
    /\ handler_pc[i] = "recv"
    /\ cmds_left > 0
    /\ cmds_left' = cmds_left - 1
    /\ Goto(i, "cleanup_check")
    /\ Send(i, IF command = CMD_OPEN_DOOR THEN CMD_OPEN_DOOR ELSE NO_REPLY)
    /\ outstanding' = outstanding \ {i}
    /\ start_ret' = [start_ret EXCEPT ![i] = "none"]
    /\ UNCHANGED <<coordVars, mediaVars, handler_ctx, client_ip, accept_pc,
                   client_sock, conns_left>>
    /\ UNCHANGED auxVars

(* recv() > 0: one command value; OPEN_DOOR and unknown values finish at once. *)
handler_recv_command(i, command) ==
    /\ handler_pc[i] = "recv"
    /\ cmds_left > 0
    /\ cmds_left' = cmds_left - 1
    /\ \/ /\ command = CMD_REQUEST_TALK
          /\ Goto(i, "request_talk")
          /\ Send(i, NO_REPLY)
          /\ UNCHANGED outstanding
       \/ /\ command = CMD_END_TALK
          /\ Goto(i, "end_talk")
          /\ Send(i, NO_REPLY)
          /\ outstanding' = outstanding \ {i}
       \/ /\ command = CMD_OPEN_DOOR
          /\ Send(i, CMD_OPEN_DOOR)
          /\ UNCHANGED <<handler_pc, outstanding>>
       \/ /\ command \notin {CMD_REQUEST_TALK, CMD_END_TALK, CMD_OPEN_DOOR}
          /\ Send(i, NO_REPLY)
          /\ UNCHANGED <<handler_pc, outstanding>>
    /\ start_ret' = [start_ret EXCEPT ![i] = "none"]
    /\ UNCHANGED <<coordVars, mediaVars, handler_ctx, client_ip, accept_pc,
                   client_sock, conns_left>>
    /\ UNCHANGED auxVars

(* recv() == 0 (peer closed) or recv() < 0 (error): _cleanup_client follows. *)
handler_recv_closed(i, recv_result) ==
    /\ handler_pc[i] = "recv"
    /\ recv_result <= 0
    /\ Goto(i, "cleanup_check")
    /\ outstanding' = outstanding \ {i}
    /\ Send(i, NO_REPLY)
    /\ start_ret' = [start_ret EXCEPT ![i] = "none"]
    /\ UNCHANGED <<coordVars, mediaVars, handler_ctx, client_ip, accept_pc,
                   client_sock, envVars>>
    /\ UNCHANGED auxVars

(* A REQUEST_TALK handling that starts the media for a denied client too. *)
handle_request_talk_starts_anyway(i) ==
    /\ handler_pc[i] = "request_talk"
    /\ talker_mutex = NO_OWNER
    /\ LET r == request_talk_permission(i, active_talker_index) IN
       /\ active_talker_index' = r.holder
       /\ \/ /\ r.ret
             /\ Send(i, CMD_GRANT_TALK)
             /\ outstanding' = outstanding \cup {i}
             /\ Goto(i, "start_audio")
          \/ /\ ~r.ret
             /\ Send(i, CMD_DENY_TALK)
             /\ Goto(i, "start_audio")
             /\ UNCHANGED outstanding
    /\ UNCHANGED <<clients, talker_mutex, mediaVars, handler_ctx, client_ip, start_ret,
                   accept_pc, client_sock, envVars>>
    /\ UNCHANGED auxVars

(* case CMD_REQUEST_TALK: the arbitration under talker_mutex, then the answer;
   a granted client goes on to _start_audio_and_video_for_client. *)
handle_request_talk(i) ==
    /\ handler_pc[i] = "request_talk"
    /\ talker_mutex = NO_OWNER
    /\ LET r == request_talk_permission(i, active_talker_index) IN
       /\ active_talker_index' = r.holder
       /\ \/ /\ r.ret
             /\ Send(i, CMD_GRANT_TALK)
             /\ outstanding' = outstanding \cup {i}
             /\ Goto(i, "start_audio")
          \/ /\ ~r.ret
             /\ Send(i, CMD_DENY_TALK)
             /\ Goto(i, "recv")
             /\ UNCHANGED outstanding
    /\ UNCHANGED <<clients, talker_mutex, mediaVars, handler_ctx, client_ip, start_ret,
                   accept_pc, client_sock, envVars>>
    /\ UNCHANGED auxVars

(* case CMD_END_TALK: the release under talker_mutex, then the answer;
   a released talk goes on to _stop_audio_and_video. *)
handle_end_talk(i) ==
    /\ handler_pc[i] = "end_talk"
    /\ talker_mutex = NO_OWNER
    /\ LET r == release_talk_permission(i, active_talker_index) IN
       /\ active_talker_index' = r.holder
       /\ \/ /\ r.ret
             /\ audio_info' = [audio_info EXCEPT !.active_client_index = INACTIVE_CLIENT_INDEX]
             /\ Send(i, CMD_TALK_ENDED)
             /\ Goto(i, "audio_cleanup")
             /\ handler_ctx' = [handler_ctx EXCEPT ![i] = "end_talk"]
          \/ /\ ~r.ret
             /\ Send(i, CMD_TALK_DID_NOT_END)
             /\ Goto(i, "recv")
             /\ UNCHANGED <<audio_info, handler_ctx>>
    /\ UNCHANGED <<clients, talker_mutex, video_info, video_pc,
                   client_ip, start_ret, accept_pc, client_sock, outstanding,
                   envVars>>
    /\ UNCHANGED auxVars

----------------------------------------------------------------------------
(* audio_pipeline_manager *)

(* The handles audio_pipelines_init leaves: stage `failed' returned NULL and
   the function returned ESP_FAIL there (1 pipeline_send, 2 i2s_reader,
   3 udp_writer, 4 pipeline_recv, 5 udp_reader, 6 i2s_writer; 0: none failed). *)
audio_pipelines_init(info, failed) ==
    LET Stage(k, old) == IF failed = 0 \/ k < failed THEN HANDLE
                         ELSE IF k = failed THEN NULL ELSE old IN
    [info EXCEPT !.pipeline_send = Stage(1, @),
                 !.i2s_reader = Stage(2, @),
                 !.udp_writer = Stage(3, @),
                 !.pipeline_recv = Stage(4, @),
                 !.udp_reader = Stage(5, @),
                 !.i2s_writer = Stage(6, @)]

(* A variant of audio_pipeline_cleanup that forgets the receive pipeline. *)
audio_pipeline_cleanup_send_only(info) ==
    [info EXCEPT !.pipeline_send = NULL, !.remote_addr = 0]

(* audio_pipeline_cleanup: each pipeline that exists is terminated, its
   elements unregistered, deinitialised and its handle set to NULL; the element
   handles keep their values; the remote address is reset. *)
audio_pipeline_cleanup(info) ==
    [info EXCEPT !.pipeline_send = NULL, !.pipeline_recv = NULL, !.remote_addr = 0]

----------------------------------------------------------------------------
(* _start_audio_and_video_for_client, called by the granted handler *)

(* The return to _handle_client_command, which drops the result. *)
StartReturns(i, result) ==
    /\ start_ret' = [start_ret EXCEPT ![i] = result]
    /\ Goto(i, "recv")
    /\ handler_ctx' = [handler_ctx EXCEPT ![i] = "none"]
    /\ client_ip' = [client_ip EXCEPT ![i] = 0]

(* client_ip read under clients_mutex and stored in audio_info.remote_addr,
   audio_pipelines_init (a failed stage returns ESP_FAIL at once), then
   audio_pipeline_run on both pipelines (a failure has both cleaned up). *)
start_audio(i) ==
    /\ handler_pc[i] = "start_audio"
    /\ LET info == [audio_info EXCEPT !.remote_addr = clients[i].ip_address] IN
       \/ /\ audio_info' = audio_pipelines_init(info, 0)
          /\ client_ip' = [client_ip EXCEPT ![i] = clients[i].ip_address]
          /\ Goto(i, "video_start")
          /\ UNCHANGED <<start_ret, handler_ctx>>
       \/ /\ audio_info' = audio_pipelines_init(info, 0)
          /\ client_ip' = [client_ip EXCEPT ![i] = clients[i].ip_address]
          /\ Goto(i, "audio_cleanup")
          /\ handler_ctx' = [handler_ctx EXCEPT ![i] = "start"]
          /\ UNCHANGED start_ret
       \/ /\ \E failed \in 1 .. 6 : audio_info' = audio_pipelines_init(info, failed)
          /\ StartReturns(i, "fail")
    /\ UNCHANGED <<coordVars, video_info, video_pc, accept_pc,
                   client_sock, last_reply, outstanding, envVars>>
    /\ UNCHANGED auxVars

----------------------------------------------------------------------------
(* video_manager *)

(* A start that, finding the video streaming, points it at the new client. *)
video_manager_start_streaming_retargets(i) ==
    /\ handler_pc[i] = "video_start"
    /\ \/ /\ video_info.is_streaming
          /\ StartReturns(i, "ok")
          /\ video_info' = [video_info EXCEPT !.remote_addr = client_ip[i]]
       \/ /\ ~video_info.is_streaming
          /\ video_info' = [video_info EXCEPT !.udp_socket = -1]
          /\ Goto(i, "audio_cleanup")
          /\ handler_ctx' = [handler_ctx EXCEPT ![i] = "start"]
          /\ UNCHANGED <<start_ret, client_ip>>
       \/ /\ ~video_info.is_streaming
          /\ video_info' = [video_info EXCEPT !.udp_socket = VIDEO_SOCK,
                                              !.remote_addr = client_ip[i],
                                              !.is_streaming = TRUE,
                                              !.stop_requested = FALSE]
          /\ Goto(i, "video_task")
          /\ UNCHANGED <<start_ret, handler_ctx, client_ip>>
    /\ UNCHANGED <<coordVars, audio_info, video_pc, accept_pc,
                   client_sock, last_reply, outstanding, envVars>>
    /\ UNCHANGED auxVars

(* video_manager_start_streaming, the section under video_info_mutex. *)
video_manager_start_streaming(i) ==
    /\ handler_pc[i] = "video_start"
    /\ \/ /\ video_info.is_streaming
          /\ StartReturns(i, "ok")
          /\ UNCHANGED video_info
       \/ /\ ~video_info.is_streaming
          /\ video_info' = [video_info EXCEPT !.udp_socket = -1]
          /\ Goto(i, "audio_cleanup")
          /\ handler_ctx' = [handler_ctx EXCEPT ![i] = "start"]
          /\ UNCHANGED <<start_ret, client_ip>>
       \/ /\ ~video_info.is_streaming
          /\ video_info' = [video_info EXCEPT !.udp_socket = VIDEO_SOCK,
                                              !.remote_addr = client_ip[i],
                                              !.is_streaming = TRUE,
                                              !.stop_requested = FALSE]
          /\ Goto(i, "video_task")
          /\ UNCHANGED <<start_ret, handler_ctx, client_ip>>
    /\ UNCHANGED <<coordVars, audio_info, video_pc, accept_pc,
                   client_sock, last_reply, outstanding, envVars>>
    /\ UNCHANGED auxVars

(* xTaskCreate(_video_streaming_task); on failure the socket is closed again. *)
video_manager_create_task(i) ==
    /\ handler_pc[i] = "video_task"
    /\ \/ /\ video_pc = "none"
          /\ video_pc' = "loop"
          /\ StartReturns(i, "ok")
          /\ UNCHANGED video_info
       \/ /\ video_info' = [video_info EXCEPT !.is_streaming = FALSE, !.udp_socket = -1]
          /\ Goto(i, "audio_cleanup")
          /\ handler_ctx' = [handler_ctx EXCEPT ![i] = "start"]
          /\ UNCHANGED <<video_pc, start_ret, client_ip>>
    /\ UNCHANGED <<coordVars, audio_info, accept_pc,
                   client_sock, last_reply, outstanding, envVars>>
    /\ UNCHANGED auxVars

(* _video_streaming_task: the stop_requested check at the head of the loop. *)
video_task_check ==
    /\ video_pc = "loop"
    /\ \/ /\ video_info.stop_requested
          /\ video_pc' = "exit"
       \/ /\ ~video_info.stop_requested
          /\ video_info.frame_id < MaxFrames
          /\ video_pc' = "frame"
    /\ UNCHANGED <<coordVars, audio_info, video_info, handler_pc, handler_ctx,
                   client_ip, start_ret, accept_pc, client_sock, last_reply,
                   outstanding, envVars>>
    /\ UNCHANGED auxVars

(* _video_manager_send_frame: takes the next frame id, sends the frame. *)
video_manager_send_frame ==
    /\ video_pc = "frame"
    /\ video_info' = IF video_info.is_streaming
                     THEN [video_info EXCEPT !.frame_id = @ + 1]
                     ELSE video_info
    /\ video_pc' = "loop"
    /\ UNCHANGED <<coordVars, audio_info, handler_pc, handler_ctx,
                   client_ip, start_ret, accept_pc, client_sock, last_reply,
                   outstanding, envVars>>
    /\ UNCHANGED auxVars

(* _video_streaming_task after the loop: flag cleared, socket closed, task gone. *)
video_task_exit ==
    /\ video_pc = "exit"
    /\ video_info' = [video_info EXCEPT !.is_streaming = FALSE, !.udp_socket = -1]
    /\ video_pc' = "none"
    /\ UNCHANGED <<coordVars, audio_info, handler_pc, handler_ctx,
                   client_ip, start_ret, accept_pc, client_sock, last_reply,
                   outstanding, envVars>>
    /\ UNCHANGED auxVars

----------------------------------------------------------------------------
(* Media teardown: audio_pipeline_cleanup, then video_manager_stop_streaming.
   handler_ctx[i] names the caller: "start" (a failed start cleans the audio
   pipelines only), "end_talk" or "cleanup" (_stop_audio_and_video). *)

(* Where the caller goes on when the teardown is over. *)
TeardownReturns(i) ==
    IF handler_ctx[i] = "cleanup"
    THEN /\ Goto(i, "cleanup_give")
         /\ UNCHANGED <<handler_ctx, start_ret, client_ip>>
    ELSE /\ Goto(i, "recv")
         /\ handler_ctx' = [handler_ctx EXCEPT ![i] = "none"]
         /\ UNCHANGED <<start_ret, client_ip>>

audio_cleanup(i) ==
    /\ handler_pc[i] = "audio_cleanup"
    /\ audio_info' = audio_pipeline_cleanup(audio_info)
    /\ \/ /\ handler_ctx[i] = "start"
          /\ StartReturns(i, "fail")
       \/ /\ handler_ctx[i] # "start"
          /\ Goto(i, "video_stop")
          /\ UNCHANGED <<handler_ctx, start_ret, client_ip>>
    /\ UNCHANGED <<coordVars, video_info, video_pc,
                   accept_pc, client_sock, last_reply, outstanding,
                   envVars>>
    /\ UNCHANGED auxVars

(* A stop that requests the stop and waits without looking at is_streaming. *)
video_manager_stop_streaming_unchecked(i) ==
    /\ handler_pc[i] = "video_stop"
    /\ video_info' = [video_info EXCEPT !.stop_requested = TRUE]
    /\ Goto(i, "video_wait")
    /\ UNCHANGED <<handler_ctx, start_ret, client_ip>>
    /\ UNCHANGED <<coordVars, audio_info, video_pc,
                   accept_pc, client_sock, last_reply, outstanding,
                   envVars>>
    /\ UNCHANGED auxVars

(* video_manager_stop_streaming, the section under video_info_mutex. *)
video_manager_stop_streaming(i) ==
    /\ handler_pc[i] = "video_stop"
    /\ \/ /\ ~video_info.is_streaming
          /\ TeardownReturns(i)
          /\ UNCHANGED video_info
       \/ /\ video_info.is_streaming
          /\ video_info' = [video_info EXCEPT !.stop_requested = TRUE]
          /\ Goto(i, "video_wait")
          /\ UNCHANGED <<handler_ctx, start_ret, client_ip>>
    /\ UNCHANGED <<coordVars, audio_info, video_pc,
                   accept_pc, client_sock, last_reply, outstanding,
                   envVars>>
    /\ UNCHANGED auxVars

(* A stop that returns after the request, without the wait for the task. *)
video_manager_stop_wait_skipped(i) ==
    /\ handler_pc[i] = "video_wait"
    /\ TeardownReturns(i)
    /\ UNCHANGED <<coordVars, mediaVars,
                   accept_pc, client_sock, last_reply, outstanding,
                   envVars>>
    /\ UNCHANGED auxVars

(* video_manager_stop_streaming, the wait loop: left once is_streaming is false. *)
video_manager_stop_wait(i) ==
    /\ handler_pc[i] = "video_wait"
    /\ ~video_info.is_streaming
    /\ TeardownReturns(i)
    /\ UNCHANGED <<coordVars, mediaVars,
                   accept_pc, client_sock, last_reply, outstanding,
                   envVars>>
    /\ UNCHANGED auxVars

----------------------------------------------------------------------------
(* _cleanup_client *)

(* A cleanup that frees the slot of the holder without the teardown and the
   release. *)
cleanup_client_check_closes_first(i) ==
    /\ handler_pc[i] = "cleanup_check"
    /\ talker_mutex = NO_OWNER
    /\ Goto(i, "cleanup_close")
    /\ UNCHANGED <<talker_mutex, handler_ctx>>
    /\ UNCHANGED <<clients, active_talker_index, mediaVars, client_ip, start_ret,
                   accept_pc, client_sock, last_reply, outstanding, envVars>>
    /\ UNCHANGED auxVars

(* talker_mutex taken; the holder tears the media down with the mutex held.
   A client that is not the holder gives the mutex back, and the
   _release_talk_permission that follows finds the same holder and changes
   nothing: both are this one step. *)
cleanup_client_check(i) ==
    /\ handler_pc[i] = "cleanup_check"
    /\ talker_mutex = NO_OWNER
    /\ \/ /\ active_talker_index = i
          /\ talker_mutex' = i
          /\ Goto(i, "audio_cleanup")
          /\ handler_ctx' = [handler_ctx EXCEPT ![i] = "cleanup"]
       \/ /\ active_talker_index # i
          /\ release_talk_permission(i, active_talker_index).holder = active_talker_index
          /\ Goto(i, "cleanup_close")
          /\ UNCHANGED <<talker_mutex, handler_ctx>>
    /\ UNCHANGED <<clients, active_talker_index, mediaVars, client_ip, start_ret,
                   accept_pc, client_sock, last_reply, outstanding, envVars>>
    /\ UNCHANGED auxVars

(* A cleanup that goes on to the release with talker_mutex still held. *)
cleanup_client_give_forgotten(i) ==
    /\ handler_pc[i] = "cleanup_give"
    /\ Goto(i, "cleanup_release")
    /\ handler_ctx' = [handler_ctx EXCEPT ![i] = "none"]
    /\ UNCHANGED <<clients, active_talker_index, talker_mutex, mediaVars, client_ip,
                   start_ret, accept_pc, client_sock, last_reply, outstanding, envVars>>
    /\ UNCHANGED auxVars

(* xSemaphoreGive(talker_mutex) after _stop_audio_and_video. *)
cleanup_client_give(i) ==
    /\ handler_pc[i] = "cleanup_give"
    /\ talker_mutex' = NO_OWNER
    /\ Goto(i, "cleanup_release")
    /\ handler_ctx' = [handler_ctx EXCEPT ![i] = "none"]
    /\ UNCHANGED <<clients, active_talker_index, mediaVars, client_ip, start_ret,
                   accept_pc, client_sock, last_reply, outstanding, envVars>>
    /\ UNCHANGED auxVars

(* A cleanup of the holder that leaves the talk slot with it. *)
cleanup_client_release_skipped(i) ==
    /\ handler_pc[i] = "cleanup_release"
    /\ talker_mutex = NO_OWNER
    /\ Goto(i, "cleanup_close")
    /\ UNCHANGED <<clients, active_talker_index, talker_mutex, mediaVars, handler_ctx,
                   client_ip, start_ret, accept_pc, client_sock, last_reply,
                   outstanding, envVars>>
    /\ UNCHANGED auxVars

(* _release_talk_permission(client_index), result dropped. *)
cleanup_client_release(i) ==
    /\ handler_pc[i] = "cleanup_release"
    /\ talker_mutex = NO_OWNER
    /\ LET r == release_talk_permission(i, active_talker_index) IN
       /\ active_talker_index' = r.holder
       /\ audio_info' = IF r.ret
                        THEN [audio_info EXCEPT !.active_client_index = INACTIVE_CLIENT_INDEX]
                        ELSE audio_info
    /\ Goto(i, "cleanup_close")
    /\ UNCHANGED <<clients, talker_mutex, video_info, video_pc, handler_ctx,
                   client_ip, start_ret, accept_pc, client_sock, last_reply,
                   outstanding, envVars>>
    /\ UNCHANGED auxVars

(* A close that marks the slot free and leaves socket and address in it. *)
cleanup_client_close_keeps_fields(i) ==
    /\ handler_pc[i] = "cleanup_close"
    /\ clients' = [clients EXCEPT ![i].is_connected = FALSE, ![i].task_handle = NULL]
    /\ Goto(i, "none")
    /\ UNCHANGED <<active_talker_index, talker_mutex, mediaVars, handler_ctx,
                   client_ip, start_ret, last_reply, accept_pc, client_sock, outstanding, envVars>>
    /\ UNCHANGED auxVars

(* Under clients_mutex: close(socket), slot fields reset; the task deletes itself. *)
cleanup_client_close(i) ==
    /\ handler_pc[i] = "cleanup_close"
    /\ clients' = [clients EXCEPT ![i] = FreeClient]
    /\ Goto(i, "none")
    /\ UNCHANGED <<active_talker_index, talker_mutex, mediaVars, handler_ctx,
                   client_ip, start_ret, last_reply, accept_pc, client_sock, outstanding, envVars>>
    /\ UNCHANGED auxVars

----------------------------------------------------------------------------
(* The system *)

ClientHandler(i) ==
    \/ \E command \in Commands : handler_recv_command(i, command)
    \/ \E recv_result \in {0, -1} : handler_recv_closed(i, recv_result)
    \/ handle_request_talk(i)
    \/ handle_end_talk(i)
    \/ start_audio(i)
    \/ video_manager_start_streaming(i)
    \/ video_manager_create_task(i)
    \/ audio_cleanup(i)
    \/ video_manager_stop_streaming(i)
    \/ video_manager_stop_wait(i)
    \/ cleanup_client_check(i)
    \/ cleanup_client_give(i)
    \/ cleanup_client_release(i)
    \/ cleanup_client_close(i)

VideoTask ==
    \/ video_task_check
    \/ video_manager_send_frame
    \/ video_task_exit

AcceptLoop ==
    \/ device_manager_accept
    \/ device_manager_reject

Next ==
    \/ \E i \in Slots : ClientHandler(i)
    \/ VideoTask
    \/ AcceptLoop
    \/ broadcast_doorbell_ring

Spec == Init /\ [][Next]_vars

----------------------------------------------------------------------------
(* Vocabulary of the properties *)

(* The Media Session is active: a pipeline exists or the video streams. *)
SessionActive ==
    \/ audio_info.pipeline_send # NULL
    \/ audio_info.pipeline_recv # NULL
    \/ video_info.is_streaming

(* The Media Session is fully stopped: both pipeline handles NULL, the Video
   Streamer idle with its socket closed and its task gone. *)
MediaStopped ==
    /\ audio_info.pipeline_send = NULL
    /\ audio_info.pipeline_recv = NULL
    /\ ~video_info.is_streaming
    /\ video_info.udp_socket = -1
    /\ video_pc = "none"

(* The handles of global_audio_state_t's pipelines and elements. *)
AudioHandles ==
    {"pipeline_send", "i2s_reader", "udp_writer", "pipeline_recv", "udp_reader", "i2s_writer"}

(* Handler i is inside _start_audio_and_video_for_client, past its first step. *)
InStart(i) ==
    \/ handler_pc[i] \in {"video_start", "video_task"}
    \/ handler_pc[i] = "audio_cleanup" /\ handler_ctx[i] = "start"

(* Handler i is inside _stop_audio_and_video, past its first step. *)
InStop(i) == handler_pc[i] \in {"video_stop", "video_wait"}

(* Handler i finishes the processing of a REQUEST_TALK in this step. *)
RequestProcessed(i) ==
    handler_pc[i] = "request_talk" /\ handler_pc'[i] # "request_talk"

(* Handler i finishes the arbitration of an END_TALK in this step. *)
EndTalkProcessed(i) ==
    handler_pc[i] = "end_talk" /\ handler_pc'[i] # "end_talk"

(* A REQUEST_TALK processed while the slot is free is granted to its sender. *)
FreeSlotGranted(i) ==
    (RequestProcessed(i) /\ active_talker_index = INACTIVE_CLIENT_INDEX)
        => /\ active_talker_index' = i
           /\ last_reply'[i] = CMD_GRANT_TALK
           /\ handler_pc'[i] = "start_audio"

----------------------------------------------------------------------------
(* Properties of the talk arbitration *)

(* C1: at any time at most one client holds the talker slot and at most one
   peer has an outstanding GRANT_TALK (granted, and has neither asked to end
   nor disconnected since), that peer being the holder; every REQUEST_TALK
   processed while another client holds the slot is answered DENY_TALK and
   leaves the holder in place. *)
C1_SingleTalker ==
    /\ [](/\ Cardinality(outstanding) <= 1
          /\ \A i \in outstanding : active_talker_index = i)
    /\ [][\A i \in Slots :
            (RequestProcessed(i)
                /\ active_talker_index \notin {INACTIVE_CLIENT_INDEX, i})
            => /\ last_reply'[i] = CMD_DENY_TALK
               /\ active_talker_index' = active_talker_index
               /\ handler_pc'[i] = "recv"]_vars

(* C1 happens: one client holds the slot with its grant outstanding while
   another client has been answered DENY_TALK. *)
C1_Witness ==
    \E i, j \in Slots :
        /\ i # j
        /\ active_talker_index = j
        /\ j \in outstanding
        /\ last_reply[i] = CMD_DENY_TALK

(* C2: an END_TALK from a client that does not hold the slot is answered
   TALK_DID_NOT_END; the step changes neither active_talker_index nor any
   state of the Media Session, and the handler goes back to recv() without
   calling _stop_audio_and_video. *)
C2_EndTalkByNonHolder ==
    [][\A i \in Slots :
        (EndTalkProcessed(i) /\ active_talker_index # i)
        => /\ last_reply'[i] = CMD_TALK_DID_NOT_END
           /\ handler_pc'[i] = "recv"
           /\ UNCHANGED <<active_talker_index, audio_info, video_info, video_pc>>]_vars

(* C2 happens: a client was answered TALK_DID_NOT_END while another client
   holds the slot and its session is still active. *)
C2_Witness ==
    \E i, j \in Slots :
        /\ i # j
        /\ active_talker_index = j
        /\ SessionActive
        /\ handler_pc[i] = "recv"
        /\ last_reply[i] = CMD_TALK_DID_NOT_END

(* C3: an END_TALK from the holder frees the slot, is answered TALK_ENDED and
   goes on to _stop_audio_and_video; a REQUEST_TALK of any client processed
   while the slot is free (so after that TALK_ENDED, until the next grant) is
   answered GRANT_TALK. *)
C3_EndTalkByHolder ==
    [][\A i \in Slots :
        /\ (EndTalkProcessed(i) /\ active_talker_index = i)
           => /\ active_talker_index' = INACTIVE_CLIENT_INDEX
              /\ last_reply'[i] = CMD_TALK_ENDED
              /\ handler_pc'[i] = "audio_cleanup"
              /\ handler_ctx'[i] = "end_talk"
        /\ FreeSlotGranted(i)]_vars

(* C3 happens: A was granted and answered TALK_ENDED for its END_TALK, and B,
   denied or not before, now holds the slot with GRANT_TALK as its answer. *)
C3_Witness ==
    \E a, b \in Slots :
        /\ a # b
        /\ last_reply[a] = CMD_TALK_ENDED
        /\ last_reply[b] = CMD_GRANT_TALK
        /\ active_talker_index = b

(* C4: when the holder's connection is closed by the peer or its recv() fails,
   _cleanup_client has the Media Session fully stopped (pipeline handles NULL,
   Video Streamer idle, its socket closed) before it gives talker_mutex back,
   the release that follows frees the slot with the session still stopped, the
   slot is never held by a handler that is closing or gone, and the next
   REQUEST_TALK processed is granted. *)
C4_HolderDisconnect ==
    /\ [](\A i \in Slots :
            /\ handler_pc[i] = "cleanup_give"
               => (talker_mutex = i /\ active_talker_index = i /\ MediaStopped)
            /\ handler_pc[i] \in {"cleanup_close", "none"}
               => active_talker_index # i)
    /\ [][\A i \in Slots :
            /\ (handler_pc[i] = "cleanup_release" /\ handler_pc'[i] # "cleanup_release"
                   /\ active_talker_index = i)
               => (active_talker_index' = INACTIVE_CLIENT_INDEX /\ MediaStopped')
            /\ FreeSlotGranted(i)]_vars

(* C4 happens: the holder, whose video had streamed, is in _cleanup_client
   after its connection ended, the teardown is done and talker_mutex given
   back, and another client's REQUEST_TALK waits to be processed. *)
C4_Witness ==
    \E i, j \in Slots :
        /\ i # j
        /\ handler_pc[i] = "cleanup_release"
        /\ active_talker_index = i
        /\ video_info.frame_id >= 1
        /\ MediaStopped
        /\ handler_pc[j] = "request_talk"

----------------------------------------------------------------------------
(* Properties of the start of a session after a grant *)

(* C5: when _start_audio_and_video_for_client has failed for the client just
   granted, the grant is rolled back: back at recv(), the client is not the
   holder of the talker slot. *)
C5_GrantRolledBack ==
    \A i \in Slots :
        (handler_pc[i] = "recv" /\ start_ret[i] = "fail")
            => active_talker_index # i

(* C6: a client whose session could not be set up is told so: back at recv(),
   GRANT_TALK is not the final answer to a REQUEST_TALK whose start failed. *)
C6_FailureReportedAsDenial ==
    \A i \in Slots :
        (handler_pc[i] = "recv" /\ last_reply[i] = CMD_GRANT_TALK)
            => start_ret[i] # "fail"

(* C7: start is all-or-nothing: the step in which it returns failure leaves
   no pipeline or element handle it built (NULL before, non-NULL after), no
   video socket it opened, and no stream it started. *)
C7_StartAllOrNothing ==
    [][\A i \in Slots :
        (start_ret[i] # "fail" /\ start_ret'[i] = "fail")
        => /\ \A h \in AudioHandles : audio_info[h] = NULL => audio_info'[h] = NULL
           /\ video_info'.udp_socket # -1 => video_info.udp_socket # -1
           /\ video_info'.is_streaming => video_info.is_streaming]_vars

(* C8: whenever the Media Session is active, the talker slot is held and the
   remote address of the session is the address of the holder. *)
C8_ActiveSessionHasHolder ==
    SessionActive
        => /\ active_talker_index # INACTIVE_CLIENT_INDEX
           /\ (audio_info.pipeline_send # NULL \/ audio_info.pipeline_recv # NULL)
                 => audio_info.remote_addr = clients[active_talker_index].ip_address
           /\ video_info.is_streaming
                 => video_info.remote_addr = clients[active_talker_index].ip_address

(* C9: start and stop of the Media Session are serialized across the handler
   tasks: at most one handler is inside _start_audio_and_video_for_client or
   _stop_audio_and_video at a time. *)
C9_StartStopSerialized ==
    Cardinality({i \in Slots : InStart(i) \/ InStop(i)}) <= 1

----------------------------------------------------------------------------
(* Properties of the accept loop *)

(* C10: at most MAX_CLIENTS slots are connected, each with its handler; a
   connection accepted while every slot is connected changes no slot and
   spawns no handler, it is left to be closed; closing it changes no slot
   either and takes the loop back to accept(). *)
C10_FullTableRejects ==
    /\ [](/\ Cardinality({i \in Slots : clients[i].is_connected}) <= MAX_CLIENTS
          /\ \A i \in Slots : clients[i].is_connected <=> handler_pc[i] # "none")
    /\ [][/\ (accept_pc = "accept" /\ conns_left' # conns_left /\ FreeSlots = {})
             => /\ clients' = clients
                /\ handler_pc' = handler_pc
                /\ accept_pc' = "reject"
                /\ \A i \in Slots : clients[i].socket # client_sock'.sock
          /\ (accept_pc = "reject" /\ accept_pc' # "reject")
             => /\ clients' = clients
                /\ handler_pc' = handler_pc
                /\ accept_pc' = "accept"]_vars

(* C10 happens: with all MAX_CLIENTS slots connected one more connection has
   been accepted and waits to be closed. *)
C10_Witness ==
    /\ accept_pc = "reject"
    /\ \A i \in Slots : clients[i].is_connected /\ clients[i].socket # client_sock.sock

----------------------------------------------------------------------------
(* broadcast_doorbell_ring examined on its own: the loop over the slot table,
   run with clients_mutex held, on every table the coordinator can have built *)

(* A slot that is connected, a slot that was never used or was cleaned up, and
   a slot whose handler could not be created (socket and address left behind). *)
BellSlotStates(i) ==
    { [socket |-> i + 1, ip_address |-> i + 1, is_connected |-> TRUE, task_handle |-> HANDLE],
      FreeClient,
      [socket |-> i + 1, ip_address |-> i + 1, is_connected |-> FALSE, task_handle |-> NULL] }

BellInit ==
    /\ clients \in [Slots -> UNION {BellSlotStates(i) : i \in Slots}]
    /\ \A i \in Slots : clients[i] \in BellSlotStates(i)
    /\ active_talker_index = INACTIVE_CLIENT_INDEX
    /\ talker_mutex = NO_OWNER
    /\ audio_info = AudioInit
    /\ video_info = VideoInit
    /\ video_pc = "none"
    /\ handler_pc = [i \in Slots |-> IF clients[i].is_connected THEN "recv" ELSE "none"]
    /\ handler_ctx = [i \in Slots |-> "none"]
    /\ client_ip = [i \in Slots |-> 0]
    /\ start_ret = [i \in Slots |-> "none"]
    /\ accept_pc = "accept"
    /\ client_sock = [sock |-> -1, ip |-> 0]
    /\ last_reply = [i \in Slots |-> NO_REPLY]
    /\ outstanding = {}
    /\ conns_left = 0
    /\ cmds_left = 0
    /\ bell = BellIdle
    /\ codec = CodecIdle
    /\ frag = FragIdle
    /\ udp = UdpIdle

(* A variant of the loop that gives up at the first send that fails. *)
doorbell_next_abort(i, sent) == IF sent THEN i + 1 ELSE MAX_CLIENTS

(* The loop index after the send to slot i; the result of send() is not read. *)
doorbell_next(i, sent) == i + 1

(* A broadcast that starts only when talker_mutex is free. *)
doorbell_take_after_talker_mutex ==
    /\ bell.pc = "idle"
    /\ talker_mutex = NO_OWNER
    /\ bell' = [pc |-> "loop", i |-> 0, sends |-> <<>>]
    /\ UNCHANGED <<sessionVars, codec, frag, udp>>

(* xSemaphoreTake(clients_mutex); doorbell_cmd = CMD_DOORBELL_RING; i = 0. *)
doorbell_take ==
    /\ bell.pc = "idle"
    /\ bell' = [pc |-> "loop", i |-> 0, sends |-> <<>>]
    /\ UNCHANGED <<sessionVars, codec, frag, udp>>

(* One turn of the for loop: a connected slot is sent DOORBELL_RING with
   MSG_DONTWAIT, and the send succeeds or fails. *)
doorbell_turn ==
    /\ bell.pc = "loop"
    /\ bell.i < MAX_CLIENTS
    /\ \/ /\ bell.i \in doorbell_sends(clients)
          /\ \E sent \in BOOLEAN :
                bell' = [bell EXCEPT
                            !.sends = Append(@, [slot |-> bell.i,
                                                 socket |-> clients[bell.i].socket,
                                                 command |-> CMD_DOORBELL_RING,
                                                 sent |-> sent]),
                            !.i = doorbell_next(bell.i, sent)]
       \/ /\ bell.i \notin doorbell_sends(clients)
          /\ bell' = [bell EXCEPT !.i = bell.i + 1]
    /\ UNCHANGED <<sessionVars, codec, frag, udp>>

(* The loop is over: xSemaphoreGive(clients_mutex). *)
doorbell_give ==
    /\ bell.pc = "loop"
    /\ bell.i >= MAX_CLIENTS
    /\ bell' = [bell EXCEPT !.pc = "done"]
    /\ UNCHANGED <<sessionVars, codec, frag, udp>>

BellNext ==
    \/ doorbell_take
    \/ doorbell_turn
    \/ doorbell_give

BellSpec == BellInit /\ [][BellNext]_vars

(* The slots the broadcast has attempted a send to, in order. *)
BellSlotsTried == [k \in 1 .. Len(bell.sends) |-> bell.sends[k].slot]

(* C11: a broadcast over a table with K connected slots attempts exactly K
   sends of DOORBELL_RING, one to the socket of each connected slot in index
   order and none to a free slot, whatever sends failed; with no connected
   slot it ends having sent nothing. *)
C11_DoorbellToEveryConnected ==
    /\ \A k \in 1 .. Len(bell.sends) :
          /\ clients[bell.sends[k].slot].is_connected
          /\ bell.sends[k].socket = clients[bell.sends[k].slot].socket
          /\ bell.sends[k].command = CMD_DOORBELL_RING
          /\ \A l \in 1 .. Len(bell.sends) : k < l => BellSlotsTried[k] < BellSlotsTried[l]
    /\ bell.pc = "done"
          => /\ {BellSlotsTried[k] : k \in 1 .. Len(bell.sends)}
                   = {i \in Slots : clients[i].is_connected}
             /\ Len(bell.sends) = Cardinality({i \in Slots : clients[i].is_connected})

(* C11 happens: a broadcast has ended in which a send failed and the connected
   slots after it were still sent to, next to a free slot that was skipped. *)
C11_Witness ==
    /\ bell.pc = "done"
    /\ \E i \in Slots : ~clients[i].is_connected
    /\ \E k, l \in 1 .. Len(bell.sends) : k < l /\ ~bell.sends[k].sent

-----------------------------------------------------------------------------
(* The packet headers: the 15-byte header _udp_stream_write builds in front of
   audio data and the 19-byte header _video_manager_send_frame builds in front
   of a frame fragment, as bytes, and their reading at the documented offsets.
   A 16-bit value is a number; a 32-bit value is a pair and a 64-bit value a
   quadruple of 16-bit words, least significant first. *)

AUDIO_PACKAGE == 0
UDP_STREAM_HEADER_LEN == 15
UDP_HEADER_TYPE_OFFSET == 0
UDP_HEADER_SEQUENCE_OFFSET == 1
UDP_HEADER_TIMESTAMP_OFFSET == 5
UDP_HEADER_LENGTH_OFFSET == 13

VIDEO_PACKAGE == 1
VIDEO_STREAM_HEADER_LEN == 19
VIDEO_HEADER_TYPE_OFFSET == 0
VIDEO_HEADER_FRAME_ID_OFFSET == 1
VIDEO_HEADER_TIMESTAMP_OFFSET == 5
VIDEO_HEADER_LENGTH_OFFSET == 13
VIDEO_HEADER_PACKET_SEQ_OFFSET == 15
VIDEO_HEADER_TOTAL_PACKETS_OFFSET == 17

(* uint16_t x = v: the conversion of an int or a uint32_t to 16 bits. *)
to_uint16(v) == v % 65536

(* The bytes of a uint16_t object in the memory of the target, low byte first. *)
bytes_of_uint16(w) == <<w % 256, w \div 256>>

(* The same with the high byte first (network order). *)
bytes_of_uint16_network_order(w) == <<w \div 256, w % 256>>

(* The bytes of a uint32_t or int64_t object in the memory of the target. *)
RECURSIVE bytes_of_words(_)
bytes_of_words(v) ==
    IF v = <<>> THEN <<>> ELSE bytes_of_uint16(Head(v)) \o bytes_of_words(Tail(v))

(* The bytes of a uint32_t or int64_t object with the most significant byte first. *)
RECURSIVE bytes_of_words_network_order(_)
bytes_of_words_network_order(v) ==
    IF v = <<>> THEN <<>>
    ELSE bytes_of_words_network_order(Tail(v)) \o bytes_of_uint16_network_order(Head(v))

(* memcpy(&header[offset], &object, size), object given by its bytes. *)
memcpy(header, offset, object, size) ==
    [k \in 1 .. Len(header) |->
        IF offset < k /\ k <= offset + size THEN object[k - offset] ELSE header[k]]

(* header[offset] = byte. *)
store(header, offset, byte) == [header EXCEPT ![offset + 1] = byte]

(* A header whose sequence number is stored most significant byte first. *)
udp_stream_header_network_order(header, sequence_number, time_ms, len) ==
    LET packet_length == to_uint16(len)
        h1 == store(header, UDP_HEADER_TYPE_OFFSET, AUDIO_PACKAGE)
        h2 == memcpy(h1, UDP_HEADER_SEQUENCE_OFFSET, bytes_of_words_network_order(sequence_number), 4)
        h3 == memcpy(h2, UDP_HEADER_TIMESTAMP_OFFSET, bytes_of_words(time_ms), 8)
    IN  memcpy(h3, UDP_HEADER_LENGTH_OFFSET, bytes_of_uint16(packet_length), 2)

(* The audio header built by _udp_stream_write over the local array header. *)
udp_stream_header(header, sequence_number, time_ms, len) ==
    LET packet_length == to_uint16(len)
        h1 == store(header, UDP_HEADER_TYPE_OFFSET, AUDIO_PACKAGE)
        h2 == memcpy(h1, UDP_HEADER_SEQUENCE_OFFSET, bytes_of_words(sequence_number), 4)
        h3 == memcpy(h2, UDP_HEADER_TIMESTAMP_OFFSET, bytes_of_words(time_ms), 8)
    IN  memcpy(h3, UDP_HEADER_LENGTH_OFFSET, bytes_of_uint16(packet_length), 2)

(* The video header built by _video_manager_send_frame for one fragment. *)
video_packet_header(header, current_frame_id, time_ms, packet_data_size, packet_seq, total_packets) ==
    LET packet_length == to_uint16(packet_data_size)
        packet_seq_16 == to_uint16(packet_seq)
        total_packets_16 == to_uint16(total_packets)
        h1 == store(header, VIDEO_HEADER_TYPE_OFFSET, VIDEO_PACKAGE)
        h2 == memcpy(h1, VIDEO_HEADER_FRAME_ID_OFFSET, bytes_of_words(current_frame_id), 4)
        h3 == memcpy(h2, VIDEO_HEADER_TIMESTAMP_OFFSET, bytes_of_words(time_ms), 8)
        h4 == memcpy(h3, VIDEO_HEADER_LENGTH_OFFSET, bytes_of_uint16(packet_length), 2)
        h5 == memcpy(h4, VIDEO_HEADER_PACKET_SEQ_OFFSET, bytes_of_uint16(packet_seq_16), 2)
    IN  memcpy(h5, VIDEO_HEADER_TOTAL_PACKETS_OFFSET, bytes_of_uint16(total_packets_16), 2)

(* Reading a little-endian 16-bit field at a byte offset of a buffer. *)
read_uint16(buffer, offset) == buffer[offset + 1] + 256 * buffer[offset + 2]

(* Reading a little-endian field of 2 * words bytes as 16-bit words. *)
read_words(buffer, offset, words) ==
    [w \in 1 .. words |-> read_uint16(buffer, offset + 2 * (w - 1))]

Rejected == [ok |-> FALSE]

(* Decoding of an audio header: a buffer shorter than 15 bytes is rejected. *)
decodeAudioHeader(buffer) ==
    IF Len(buffer) < UDP_STREAM_HEADER_LEN THEN Rejected
    ELSE [ok |-> TRUE,
          type |-> buffer[UDP_HEADER_TYPE_OFFSET + 1],
          seq |-> read_words(buffer, UDP_HEADER_SEQUENCE_OFFSET, 2),
          timestampMs |-> read_words(buffer, UDP_HEADER_TIMESTAMP_OFFSET, 4),
          len |-> read_uint16(buffer, UDP_HEADER_LENGTH_OFFSET)]

(* Decoding of a video header: a buffer shorter than 19 bytes is rejected. *)
decodeVideoHeader(buffer) ==
    IF Len(buffer) < VIDEO_STREAM_HEADER_LEN THEN Rejected
    ELSE [ok |-> TRUE,
          type |-> buffer[VIDEO_HEADER_TYPE_OFFSET + 1],
          frameId |-> read_words(buffer, VIDEO_HEADER_FRAME_ID_OFFSET, 2),
          timestampMs |-> read_words(buffer, VIDEO_HEADER_TIMESTAMP_OFFSET, 4),
          fragLen |-> read_uint16(buffer, VIDEO_HEADER_LENGTH_OFFSET),
          fragSeq |-> read_uint16(buffer, VIDEO_HEADER_PACKET_SEQ_OFFSET),
          totalFrags |-> read_uint16(buffer, VIDEO_HEADER_TOTAL_PACKETS_OFFSET)]

(* Field values the headers are examined on: 0, 1, a value whose bytes all
   differ, and the largest value of the width. *)
U16Samples == {0, 1, 258, 65535}

U32Samples == {<<0, 0>>, <<1, 0>>, <<513, 1027>>, <<65535, 65535>>}

I64Samples == {<<0, 0, 0, 0>>, <<513, 1027, 1541, 2055>>,
               <<65535, 65535, 0, 0>>, <<65535, 65535, 65535, 32767>>}

(* What the bytes of the local array hold before they are written. *)
StackBytes == {0, 255}

(* The lengths a received buffer is cut to: empty, one byte, one byte short. *)
ShortLens(full) == {0, 1, full - 1}

AudioFields == [seq : U32Samples, timestampMs : I64Samples, len : U16Samples]

VideoFields == [frameId : U32Samples, timestampMs : I64Samples, fragLen : U16Samples,
                fragSeq : {0, 258, 65535}, totalFrags : {1, 65535}]

HeaderLen(kind) == IF kind = "audio" THEN UDP_STREAM_HEADER_LEN ELSE VIDEO_STREAM_HEADER_LEN

(* The packet data are about to be given a header: the fields are chosen and
   the local array header is not written yet. *)
CodecInit ==
    /\ SessionInit({<<0, 0>>})
    /\ bell = BellIdle
    /\ frag = FragIdle
    /\ udp = UdpIdle
    /\ \E kind \in {"audio", "video"}, fill \in StackBytes :
       \E fields \in (IF kind = "audio" THEN AudioFields ELSE VideoFields) :
          codec = [pc |-> "fields", kind |-> kind, fields |-> fields,
                   buffer |-> [k \in 1 .. HeaderLen(kind) |-> fill],
                   decoded |-> Rejected]

(* The header is built from the fields. *)
codec_encode ==
    /\ codec.pc = "fields"
    /\ codec' = [codec EXCEPT
          !.pc = "header",
          !.buffer = IF codec.kind = "audio"
                     THEN udp_stream_header(@, codec.fields.seq, codec.fields.timestampMs,
                                            codec.fields.len)
                     ELSE video_packet_header(@, codec.fields.frameId, codec.fields.timestampMs,
                                              codec.fields.fragLen, codec.fields.fragSeq,
                                              codec.fields.totalFrags)]
    /\ UNCHANGED <<sessionVars, bell, frag, udp>>

(* The receiver is handed fewer bytes than a header. *)
codec_cut ==
    /\ codec.pc = "header"
    /\ \E n \in ShortLens(HeaderLen(codec.kind)) :
          codec' = [codec EXCEPT !.pc = "short", !.buffer = SubSeq(@, 1, n)]
    /\ UNCHANGED <<sessionVars, bell, frag, udp>>

(* The receiver decodes the buffer. *)
codec_decode ==
    /\ codec.pc \in {"header", "short"}
    /\ codec' = [codec EXCEPT
          !.pc = "decoded",
          !.decoded = IF codec.kind = "audio" THEN decodeAudioHeader(codec.buffer)
                      ELSE decodeVideoHeader(codec.buffer)]
    /\ UNCHANGED <<sessionVars, bell, frag, udp>>

CodecNext ==
    \/ codec_encode
    \/ codec_cut
    \/ codec_decode

CodecSpec == CodecInit /\ [][CodecNext]_vars

(* What decoding the header of the chosen fields has to give. *)
CodecExpected ==
    IF codec.kind = "audio"
    THEN [ok |-> TRUE, type |-> AUDIO_PACKAGE, seq |-> codec.fields.seq,
          timestampMs |-> codec.fields.timestampMs, len |-> codec.fields.len]
    ELSE [ok |-> TRUE, type |-> VIDEO_PACKAGE, frameId |-> codec.fields.frameId,
          timestampMs |-> codec.fields.timestampMs, fragLen |-> codec.fields.fragLen,
          fragSeq |-> codec.fields.fragSeq, totalFrags |-> codec.fields.totalFrags]

(* C12: decoding the 15-byte audio header or the 19-byte video header built
   from any fields, the boundary values included, gives back exactly those
   fields; the header has the fixed length and holds every field low byte
   first at its documented offset; a buffer shorter than the header is
   rejected. *)
C12_HeaderRoundTrip ==
    /\ codec.pc = "header" =>
          /\ Len(codec.buffer) = HeaderLen(codec.kind)
          /\ \A k \in 1 .. Len(codec.buffer) : codec.buffer[k] \in 0 .. 255
          /\ codec.buffer[1] = (IF codec.kind = "audio" THEN 0 ELSE 1)
          /\ SubSeq(codec.buffer, 2, 5) =
                bytes_of_words(IF codec.kind = "audio" THEN codec.fields.seq
                               ELSE codec.fields.frameId)
          /\ SubSeq(codec.buffer, 6, 13) = bytes_of_words(codec.fields.timestampMs)
          /\ SubSeq(codec.buffer, 14, 15) =
                bytes_of_uint16(IF codec.kind = "audio" THEN codec.fields.len
                                ELSE codec.fields.fragLen)
          /\ codec.kind = "video" =>
                /\ SubSeq(codec.buffer, 16, 17) = bytes_of_uint16(codec.fields.fragSeq)
                /\ SubSeq(codec.buffer, 18, 19) = bytes_of_uint16(codec.fields.totalFrags)
    /\ codec.pc = "decoded" =>
          codec.decoded = (IF Len(codec.buffer) < HeaderLen(codec.kind)
                           THEN Rejected ELSE CodecExpected)

(* C12 happens: a video header of the largest field values has been decoded
   to its fields. *)
C12_Witness ==
    /\ codec.pc = "decoded"
    /\ codec.kind = "video"
    /\ codec.decoded.ok
    /\ codec.decoded.frameId = <<65535, 65535>>
    /\ codec.decoded.fragLen = 65535
    /\ codec.decoded.totalFrags = 65535

-----------------------------------------------------------------------------
(* The sending of frames by the streaming task: each tick of
   _video_streaming_task calls _video_manager_send_frame, which takes the
   frame id under video_info_mutex, captures a frame, sends it in packets and
   returns the frame buffer. *)

MAX_VIDEO_PACKET_SIZE == 1400

(* Ticks of the streaming task in one run. *)
MaxTicks == 2

(* x++ on a uint32_t (sequence_number++, video_info.frame_id++). *)
inc_uint32(v) ==
    IF v[1] < 65535 THEN <<v[1] + 1, v[2]>> ELSE <<0, (v[2] + 1) % 65536>>

MAX_VIDEO_DATA_SIZE == MAX_VIDEO_PACKET_SIZE - VIDEO_STREAM_HEADER_LEN

(* The sizes fb->len of the captured frames: empty, one byte, and the sizes
   around one, two and three full packets. *)
FrameLens == {0, 1, MAX_VIDEO_DATA_SIZE - 1, MAX_VIDEO_DATA_SIZE, MAX_VIDEO_DATA_SIZE + 1,
              2 * MAX_VIDEO_DATA_SIZE, 2 * MAX_VIDEO_DATA_SIZE + 1, 3 * MAX_VIDEO_DATA_SIZE}

(* A packet count that is one more than the whole packets in the frame. *)
total_packets_one_more(len) == len \div MAX_VIDEO_DATA_SIZE + 1

(* uint32_t total_packets = (fb->len + MAX_VIDEO_DATA_SIZE - 1) / MAX_VIDEO_DATA_SIZE. *)
total_packets(len) == (len + MAX_VIDEO_DATA_SIZE - 1) \div MAX_VIDEO_DATA_SIZE

(* A packet size that is the cap for every packet, the last one included. *)
packet_data_size_full(offset, len) == MAX_VIDEO_DATA_SIZE

(* uint32_t packet_data_size of the packet at offset in a frame of len bytes. *)
packet_data_size(offset, len) ==
    IF offset + MAX_VIDEO_DATA_SIZE > len THEN len - offset ELSE MAX_VIDEO_DATA_SIZE

(* The streaming task in its first tick of the run: the frame id has been
   taken (video_info.frame_id++) and the mutex given back; the frame is not
   captured yet.  fb is the frame buffer of the tick: "none" before the
   capture, "held", "returned", or "null" when the driver gave no buffer;
   fb_returns counts the calls of esp_camera_fb_return in the tick. *)
FragInit ==
    /\ SessionInit({<<0, 0>>})
    /\ bell = BellIdle
    /\ codec = CodecIdle
    /\ udp = UdpIdle
    /\ \E id \in {<<0, 0>>, <<65535, 65535>>}, fill \in StackBytes :
          frag = [pc |-> "capture", current_frame_id |-> id, frame_id |-> inc_uint32(id),
                  fill |-> fill, len |-> 0,
                  time_ms |-> <<0, 0, 0, 0>>, total_packets |-> 0, packet_seq |-> 0,
                  packets |-> <<>>, ret |-> "none", fb |-> "none", fb_returns |-> 0,
                  ticks |-> 1]

(* The next tick of _video_streaming_task (stop not requested, streaming):
   _video_manager_send_frame takes the next frame id under the mutex. *)
send_frame_enter ==
    /\ frag.pc = "done"
    /\ frag.ticks < MaxTicks
    /\ frag' = [frag EXCEPT !.pc = "capture", !.current_frame_id = frag.frame_id,
                            !.frame_id = inc_uint32(@), !.len = 0,
                            !.time_ms = <<0, 0, 0, 0>>, !.total_packets = 0,
                            !.packet_seq = 0, !.packets = <<>>, !.ret = "none",
                            !.fb = "none", !.fb_returns = 0, !.ticks = @ + 1]
    /\ UNCHANGED <<sessionVars, bell, codec, udp>>

(* esp_camera_fb_get() gives a frame; total_packets and time_ms are computed
   once; packet_seq = 0. *)
send_frame_capture ==
    /\ frag.pc = "capture"
    /\ \E len \in FrameLens, t \in {<<513, 1027, 1541, 2055>>, <<65535, 65535, 0, 0>>} :
          frag' = [frag EXCEPT !.pc = "loop", !.len = len, !.time_ms = t,
                               !.total_packets = total_packets(len), !.packet_seq = 0,
                               !.fb = "held"]
    /\ UNCHANGED <<sessionVars, bell, codec, udp>>

(* esp_camera_fb_get() gives NULL.  The function goes on to read fb->len
   through the null pointer: the load faults and the firmware panics, or it
   yields whatever the memory at that address holds and the loop runs with
   that length, its packets read through fb->buf. *)
send_frame_capture_null ==
    /\ frag.pc = "capture"
    /\ \/ frag' = [frag EXCEPT !.pc = "fault", !.fb = "null"]
       \/ \E len \in FrameLens, t \in {<<513, 1027, 1541, 2055>>} :
             frag' = [frag EXCEPT !.pc = "loop", !.len = len, !.time_ms = t,
                                  !.total_packets = total_packets(len), !.packet_seq = 0,
                                  !.fb = "null"]
    /\ UNCHANGED <<sessionVars, bell, codec, udp>>

(* esp_camera_fb_return(fb) on the buffer of the tick. *)
fb_return(fb) == IF fb = "held" THEN "returned" ELSE fb

(* A failed send that returns ESP_FAIL with the frame buffer still held. *)
send_frame_packet_keeps_buffer ==
    /\ frag.pc = "loop"
    /\ frag.packet_seq < frag.total_packets
    /\ LET offset == frag.packet_seq * MAX_VIDEO_DATA_SIZE
           size == packet_data_size(offset, frag.len)
           header == video_packet_header([k \in 1 .. VIDEO_STREAM_HEADER_LEN |-> frag.fill],
                                         frag.current_frame_id, frag.time_ms, size,
                                         frag.packet_seq, frag.total_packets)
       IN  \E sent \in BOOLEAN :
              frag' = IF sent
                      THEN [frag EXCEPT
                               !.packets = Append(@, [header |-> header, offset |-> offset,
                                                      iov_len |-> size]),
                               !.packet_seq = @ + 1]
                      ELSE [frag EXCEPT !.pc = "done", !.ret = "ESP_FAIL"]
    /\ UNCHANGED <<sessionVars, bell, codec, udp>>

(* One turn of the for loop: the header of the packet is built and sendmsg
   sends header and data; a failed send returns the buffer and returns
   ESP_FAIL at once. *)
send_frame_packet ==
    /\ frag.pc = "loop"
    /\ frag.packet_seq < frag.total_packets
    /\ LET offset == frag.packet_seq * MAX_VIDEO_DATA_SIZE
           size == packet_data_size(offset, frag.len)
           header == video_packet_header([k \in 1 .. VIDEO_STREAM_HEADER_LEN |-> frag.fill],
                                         frag.current_frame_id, frag.time_ms, size,
                                         frag.packet_seq, frag.total_packets)
       IN  \E sent \in BOOLEAN :
              frag' = IF sent
                      THEN [frag EXCEPT
                               !.packets = Append(@, [header |-> header, offset |-> offset,
                                                      iov_len |-> size]),
                               !.packet_seq = @ + 1]
                      ELSE [frag EXCEPT !.pc = "done", !.ret = "ESP_FAIL",
                                        !.fb = fb_return(@), !.fb_returns = @ + 1]
    /\ UNCHANGED <<sessionVars, bell, codec, udp>>

(* The loop is over: esp_camera_fb_return(fb); return ESP_OK. *)
send_frame_return ==
    /\ frag.pc = "loop"
    /\ frag.packet_seq >= frag.total_packets
    /\ frag' = [frag EXCEPT !.pc = "done", !.ret = "ESP_OK",
                            !.fb = fb_return(@), !.fb_returns = @ + 1]
    /\ UNCHANGED <<sessionVars, bell, codec, udp>>

FragNext ==
    \/ send_frame_enter
    \/ send_frame_capture
    \/ send_frame_capture_null
    \/ send_frame_packet
    \/ send_frame_return

FragSpec == FragInit /\ [][FragNext]_vars

(* ceil(F / C) for a frame of F bytes and a cap of C bytes. *)
CeilDiv(F, C) == CHOOSE n \in 0 .. F : n * C >= F /\ (n > 0 => (n - 1) * C < F)

(* The header fields of the k-th packet sent, as a receiver reads them. *)
FragSent(k) == decodeVideoHeader(frag.packets[k].header)

(* C13: the packets sent for a frame of F bytes carry the fragment-seq values
   0, 1, 2, ... in the order sent, the same frame id, the same timestamp and
   a total equal to ceil(F / 1381); when no send fails the frame is sent in
   exactly ceil(F / 1381) packets. *)
C13_FrameFragments ==
    /\ \A k \in 1 .. Len(frag.packets) :
          /\ FragSent(k).ok
          /\ FragSent(k).fragSeq = k - 1
          /\ FragSent(k).frameId = frag.current_frame_id
          /\ FragSent(k).timestampMs = frag.time_ms
          /\ FragSent(k).totalFrags = CeilDiv(frag.len, 1381)
          /\ FragSent(k).fragLen = frag.packets[k].iov_len
    /\ frag.ret = "ESP_OK" => Len(frag.packets) = CeilDiv(frag.len, 1381)

(* C13 happens: a frame of two full packets and one byte has been sent in
   three packets without a failed send. *)
C13_Witness ==
    /\ frag.ret = "ESP_OK"
    /\ frag.len = 2 * 1381 + 1
    /\ Len(frag.packets) = 3
    /\ frag.packets[3].iov_len = 1

-----------------------------------------------------------------------------
(* The UDP transport element of udp_stream.c: elements are created by
   udp_stream_init, opened and closed by the pipeline, read (reader) or
   written (writer) by their task, and destroyed once closed.  The packet
   counter of _udp_stream_write is a static of the function. *)

UdpElements == 2
UdpOps == 8

(* buffer_len of the elements the audio pipelines create. *)
buffer_len == 324

Elements == 1 .. UdpElements

(* A value returned by an operation: a code, and a byte count where it is one. *)
Ret(code, n) == [code |-> code, n |-> n]

(* No recvfrom was made. *)
NoRecv == [bytes |-> 0, errno |-> "none"]

(* No receive timeout was set. *)
NoTimeout == [tv_sec |-> -1, tv_usec |-> -1]

(* audio_element_output was not called. *)
NoOut == [len |-> 0, fill |-> "none", result |-> "none"]

(* No sendmsg was made. *)
NoMsg == [given |-> 0, header |-> <<>>, iov_len |-> 0]

NoElement == [state |-> "none", type |-> "writer", sock |-> -1, is_open |-> FALSE,
              status |-> "none", sent |-> <<>>]

(* No element exists; sequence_number has its static initialiser. *)
UdpStart == [els |-> [e \in Elements |-> NoElement],
             sequence_number |-> <<0, 0>>,
             socks |-> {},
             ops_left |-> UdpOps,
             last |-> [op |-> "none", el |-> 0, was_open |-> FALSE, io |-> <<>>,
                       outcome |-> "none", timeout |-> NoTimeout, recv |-> NoRecv,
                       msg |-> NoMsg, r_size |-> Ret("none", 0), out |-> NoOut,
                       ret |-> Ret("none", 0), reported |-> "none"]]

UdpInit ==
    /\ SessionInit({<<0, 0>>})
    /\ bell = BellIdle
    /\ codec = CodecIdle
    /\ frag = FragIdle
    /\ udp = UdpStart

(* The descriptor socket() returns: the lowest one not in use. *)
NewSock == CHOOSE fd \in 0 .. UdpElements : fd \notin udp.socks /\ \A g \in 0 .. fd - 1 : g \in udp.socks

(* The record of the operation just run on element e of u. *)
UdpDoneIn(u, op, e, io, outcome, ret, reported) ==
    [op |-> op, el |-> e, was_open |-> u.els[e].is_open, io |-> io,
     outcome |-> outcome, timeout |-> NoTimeout, recv |-> NoRecv, msg |-> NoMsg,
     r_size |-> Ret("none", 0), out |-> NoOut, ret |-> ret,
     reported |-> reported]

(* The record of the operation just run on element e. *)
UdpDone(op, e, io, outcome, ret, reported) ==
    UdpDoneIn(udp, op, e, io, outcome, ret, reported)

(* udp_stream_init: a new element of the configured type, with no socket.
   The audio pipelines hold one writer and one reader at a time. *)
udp_stream_init(e) ==
    /\ udp.ops_left > 0
    /\ udp.els[e].state = "none"
    /\ \A d \in 1 .. e - 1 : udp.els[d].state # "none"
    /\ \E type \in {"writer", "reader"} :
          /\ \A d \in Elements : udp.els[d].state = "live" => udp.els[d].type # type
          /\ udp' = [udp EXCEPT
                     !.els[e] = [state |-> "live", type |-> type, sock |-> -1,
                                 is_open |-> FALSE, status |-> "none", sent |-> <<>>],
                     !.ops_left = @ - 1,
                     !.last = UdpDone("init", e, <<>>, "ok", Ret("handle", e), "none")]
    /\ UNCHANGED <<sessionVars, bell, codec, frag>>

(* An open that takes every call for a first one. *)
udp_open_is_noop_never(el) == FALSE

(* _udp_open: if (udp->is_open) return ESP_OK. *)
udp_open_is_noop(el) == el.is_open

(* _udp_open: an open element is left alone; otherwise a socket is created,
   bound for a reader, and kept; a failure leaves the element closed. *)
udp_open(e) ==
    /\ udp.ops_left > 0
    /\ udp.els[e].state = "live"
    /\ \/ /\ udp_open_is_noop(udp.els[e])
          /\ udp' = [udp EXCEPT !.ops_left = @ - 1,
                                !.last = UdpDone("open", e, <<>>, "open", Ret("ESP_OK", 0), "none")]
       \/ /\ ~udp_open_is_noop(udp.els[e])
          /\ \/ udp' = [udp EXCEPT
                           !.ops_left = @ - 1,
                           !.last = UdpDone("open", e, <<"socket">>, "socket", Ret("ESP_FAIL", 0), "none")]
             \/ /\ udp.els[e].type = "reader"
                /\ udp' = [udp EXCEPT
                              !.ops_left = @ - 1,
                              !.last = UdpDone("open", e, <<"socket", "bind", "close">>, "bind",
                                               Ret("ESP_FAIL", 0), "none")]
             \/ udp' = [udp EXCEPT
                           !.els[e].sock = NewSock,
                           !.els[e].is_open = TRUE,
                           !.socks = @ \cup {NewSock},
                           !.ops_left = @ - 1,
                           !.last = UdpDone("open", e,
                                            IF udp.els[e].type = "reader"
                                            THEN <<"socket", "bind">> ELSE <<"socket">>,
                                            "ok", Ret("ESP_OK", 0), "none")]
    /\ UNCHANGED <<sessionVars, bell, codec, frag>>

(* _udp_close: a closed element is left alone; otherwise the socket is closed
   and forgotten. *)
udp_close(e) ==
    /\ udp.ops_left > 0
    /\ udp.els[e].state = "live"
    /\ IF ~udp.els[e].is_open
       THEN udp' = [udp EXCEPT !.ops_left = @ - 1,
                               !.last = UdpDone("close", e, <<>>, "closed", Ret("ESP_OK", 0), "none")]
       ELSE udp' = [udp EXCEPT
                       !.els[e].sock = IF udp.els[e].sock >= 0 THEN -1 ELSE @,
                       !.els[e].is_open = FALSE,
                       !.socks = IF udp.els[e].sock >= 0 THEN @ \ {udp.els[e].sock} ELSE @,
                       !.ops_left = @ - 1,
                       !.last = UdpDone("close", e,
                                        IF udp.els[e].sock >= 0 THEN <<"close">> ELSE <<>>,
                                        "ok", Ret("ESP_OK", 0), "none")]
    /\ UNCHANGED <<sessionVars, bell, codec, frag>>

(* What recvfrom does within the receive timeout: a datagram of n bytes, or
   -1 with an errno. *)
RecvOutcomes(len) == {[bytes |-> n, errno |-> "none"] : n \in {0, 100, len}}
                         \cup {[bytes |-> -1, errno |-> err] : err \in {"EAGAIN", "EWOULDBLOCK", "EBADF"}}

(* portMAX_DELAY, the largest TickType_t (uint32_t). *)
portMAX_DELAY == <<65535, 65535>>

(* The ticks_to_wait a read can be given: unlimited, none, some ticks, and
   2^31 ticks. *)
ReadTicks == {portMAX_DELAY, <<0, 0>>, <<150, 0>>, <<0, 32768>>}

(* portTICK_PERIOD_MS of the build: 1 ms (1000 Hz) or 10 ms (100 Hz). *)
TickPeriods == {1, 10}

(* uint32_t product of a uint32_t and a small factor. *)
mul_uint32(v, p) ==
    LET lo == v[1] * p
    IN  <<lo % 65536, (v[2] * p + lo \div 65536) % 65536>>

(* The struct timeval _udp_stream_read gives to SO_RCVTIMEO; 65536 is
   65 * 1000 + 536. *)
read_timeout(ticks_to_wait, period) ==
    IF ticks_to_wait = portMAX_DELAY
    THEN [tv_sec |-> 0, tv_usec |-> 100000]
    ELSE LET timeout_ms == mul_uint32(ticks_to_wait, period)
             low == timeout_ms[2] * 536 + timeout_ms[1]
         IN  [tv_sec |-> timeout_ms[2] * 65 + low \div 1000,
              tv_usec |-> (low % 1000) * 1000]

(* SO_RCVTIMEO with a zero timeval sets no timeout: recvfrom then waits until
   a datagram or an error comes, and never fails with EAGAIN/EWOULDBLOCK. *)
RecvOutcomesWithin(timeout, len) ==
    IF timeout.tv_sec = 0 /\ timeout.tv_usec = 0
    THEN {r \in RecvOutcomes(len) : r.errno \notin {"EAGAIN", "EWOULDBLOCK"}}
    ELSE RecvOutcomes(len)

(* A read that reports a timeout as an input error. *)
udp_read_result_strict(r) ==
    IF r.bytes < 0
    THEN [ret |-> Ret("AEL_IO_FAIL", 0), reported |-> "AEL_STATUS_ERROR_INPUT"]
    ELSE [ret |-> Ret("bytes", r.bytes), reported |-> "none"]

(* _udp_stream_read after recvfrom: the value returned and the status reported. *)
udp_read_result(r) ==
    IF r.bytes < 0
    THEN IF r.errno \in {"EAGAIN", "EWOULDBLOCK"}
         THEN [ret |-> Ret("AEL_IO_TIMEOUT", 0), reported |-> "none"]
         ELSE [ret |-> Ret("AEL_IO_FAIL", 0), reported |-> "AEL_STATUS_ERROR_INPUT"]
    ELSE [ret |-> Ret("bytes", r.bytes), reported |-> "none"]

(* _udp_stream_read, the read callback, run on element e of u with the
   outcome r of recvfrom: the element and the record of the call. *)
read_callback(u, e, len, ticks_to_wait, period, r) ==
    IF ~u.els[e].is_open
    THEN [u EXCEPT !.last = UdpDoneIn(u, "read", e, <<>>, "closed",
                                      Ret("AEL_IO_FAIL", 0), "none")]
    ELSE IF len < 0
    THEN [u EXCEPT !.last = UdpDoneIn(u, "read", e, <<>>, "len", Ret("bytes", len), "none")]
    ELSE [u EXCEPT
             !.els[e].status = IF udp_read_result(r).reported # "none"
                               THEN udp_read_result(r).reported ELSE @,
             !.last = [UdpDoneIn(u, "read", e, <<"setsockopt", "recvfrom">>, "recvfrom",
                                 udp_read_result(r).ret, udp_read_result(r).reported)
                          EXCEPT !.recv = r,
                                 !.timeout = read_timeout(ticks_to_wait, period)]]

(* _udp_stream_read, the read callback of a reader, with the len >= 0 that
   _udp_stream_process passes on. *)
udp_stream_read(e) ==
    /\ udp.ops_left > 0
    /\ udp.els[e].state = "live"
    /\ udp.els[e].type = "reader"
    /\ \E len \in {buffer_len}, ticks_to_wait \in ReadTicks, period \in TickPeriods :
          \E r \in RecvOutcomesWithin(read_timeout(ticks_to_wait, period), len) :
              udp' = [read_callback(udp, e, len, ticks_to_wait, period, r)
                         EXCEPT !.ops_left = @ - 1]
    /\ UNCHANGED <<sessionVars, bell, codec, frag>>

(* The lengths the pipeline hands to the write callback. *)
WriteLens == {0, 1, buffer_len, buffer_len + 1}

(* A write that sends whatever length it is given. *)
write_len_unlimited(len, limit) == len

(* if (len > udp->buffer_len) len = udp->buffer_len. *)
write_len(len, limit) == IF len > limit THEN limit ELSE len

(* The errno values of a failed sendmsg. *)
SendErrnos == {"ENOMEM", "EBADF", "EHOSTUNREACH"}

(* A write that reports every failed send as an output error. *)
udp_write_failed_strict(errno, len) ==
    [ret |-> Ret("AEL_IO_FAIL", 0), reported |-> "AEL_STATUS_ERROR_OUTPUT"]

(* _udp_stream_write after sendmsg() < 0: the value returned and the status
   reported. *)
udp_write_failed(errno, len) ==
    IF errno = "ENOMEM"
    THEN [ret |-> Ret("bytes", len), reported |-> "none"]
    ELSE [ret |-> Ret("AEL_IO_FAIL", 0), reported |-> "AEL_STATUS_ERROR_OUTPUT"]

(* The outcomes of sendmsg: sent, or -1 with an errno. *)
SendOutcomes == {"ok"} \cup SendErrnos

(* _udp_stream_write, the write callback, run on element e of u with the
   outcome of sendmsg: the header carries the static sequence_number, which
   is incremented after a successful sendmsg; msg is what sendmsg was given:
   the header and iov[1].iov_len bytes of the caller's buffer. *)
write_callback(u, e, given, outcome) ==
    IF ~u.els[e].is_open
    THEN [u EXCEPT !.last = UdpDoneIn(u, "write", e, <<>>, "closed",
                                      Ret("AEL_IO_FAIL", 0), "none")]
    ELSE IF given < 0
    THEN [u EXCEPT !.last = UdpDoneIn(u, "write", e, <<>>, "len", Ret("bytes", given), "none")]
    ELSE IF given = 0
    THEN [u EXCEPT !.last = UdpDoneIn(u, "write", e, <<>>, "empty", Ret("AEL_IO_OK", 0), "none")]
    ELSE LET len == write_len(given, buffer_len)
             header == udp_stream_header([k \in 1 .. UDP_STREAM_HEADER_LEN |-> 0],
                                         u.sequence_number, <<513, 1027, 1541, 2055>>, len)
             msg == [given |-> given, header |-> header, iov_len |-> len]
             failed == udp_write_failed(outcome, len)
         IN  IF outcome = "ok"
             THEN [u EXCEPT
                      !.els[e].sent = Append(@, decodeAudioHeader(header).seq),
                      !.sequence_number = inc_uint32(@),
                      !.last = [UdpDoneIn(u, "write", e, <<"sendmsg">>, "ok",
                                          Ret("bytes", UDP_STREAM_HEADER_LEN + len), "none")
                                   EXCEPT !.msg = msg]]
             ELSE [u EXCEPT
                      !.els[e].status = IF failed.reported # "none"
                                        THEN failed.reported ELSE @,
                      !.last = [UdpDoneIn(u, "write", e, <<"sendmsg">>, outcome,
                                          failed.ret, failed.reported)
                                   EXCEPT !.msg = msg]]

(* _udp_stream_write, the write callback of a writer. *)
udp_stream_write(e) ==
    /\ udp.ops_left > 0
    /\ udp.els[e].state = "live"
    /\ udp.els[e].type = "writer"
    /\ \E given \in WriteLens, outcome \in SendOutcomes :
          udp' = [write_callback(udp, e, given, outcome) EXCEPT !.ops_left = @ - 1]
    /\ UNCHANGED <<sessionVars, bell, codec, frag>>

(* The in_len the element task gives to the process callback: the element's
   buffer size, or a negative value. *)
ProcessLens == {-1, buffer_len}

(* The wait audio_element_input gives the read callback of a reader: the
   unlimited one. *)
ProcessTicks == {portMAX_DELAY}

(* What audio_element_input gives a writer, whose input is the ring buffer
   filled by the microphone element: bytes, or a code (all codes are <= 0). *)
InputResults(in_len) ==
    {Ret("bytes", n) : n \in {100, in_len}}
        \cup {Ret(code, 0) : code \in {"AEL_IO_OK", "AEL_IO_TIMEOUT", "AEL_IO_DONE", "AEL_IO_ABORT"}}

(* What audio_element_output gives a reader, whose output is the ring buffer
   read by the speaker element: all bytes taken, or a code. *)
OutputResults == {"ok", "AEL_IO_TIMEOUT", "AEL_IO_ABORT"}

(* A process step that hands a timeout of its input on. *)
process_output_none_on_timeout(r_size, in_len) ==
    IF r_size.code = "bytes" /\ r_size.n > 0
    THEN [len |-> r_size.n, fill |-> "input", result |-> "none"]
    ELSE NoOut

(* _udp_stream_process: what is handed to audio_element_output for the
   result r_size of audio_element_input: in_len zero bytes after a timeout,
   the r_size bytes read when r_size > 0, nothing otherwise. *)
process_output(r_size, in_len) ==
    IF r_size.code = "AEL_IO_TIMEOUT"
    THEN [len |-> in_len, fill |-> "zeros", result |-> "none"]
    ELSE IF r_size.code = "bytes" /\ r_size.n > 0
    THEN [len |-> r_size.n, fill |-> "input", result |-> "none"]
    ELSE NoOut

(* _udp_stream_process of a reader: audio_element_input is the read callback,
   audio_element_output writes to the ring buffer. *)
process_reader(e, in_len, ticks_to_wait, period, r, w) ==
    LET u == read_callback(udp, e, in_len, ticks_to_wait, period, r)
        r_size == u.last.ret
        out == process_output(r_size, in_len)
        w_size == IF out = NoOut THEN r_size
                  ELSE IF w = "ok" THEN Ret("bytes", out.len) ELSE Ret(w, 0)
    IN  [u EXCEPT !.last.op = "process", !.last.r_size = r_size,
                  !.last.out = IF out = NoOut THEN out ELSE [out EXCEPT !.result = w],
                  !.last.ret = w_size]

(* _udp_stream_process of a writer: audio_element_input reads the ring
   buffer, audio_element_output is the write callback. *)
process_writer(e, in_len, r_size, outcome) ==
    LET out == process_output(r_size, in_len)
        u == write_callback(udp, e, out.len, outcome)
    IN  IF out = NoOut
        THEN [udp EXCEPT !.last = [UdpDone("process", e, <<>>, "input", r_size, "none")
                                      EXCEPT !.r_size = r_size]]
        ELSE [u EXCEPT !.last.op = "process", !.last.r_size = r_size,
                       !.last.out = [out EXCEPT !.result = u.last.outcome]]

(* _udp_stream_process, the process callback of both element types: one
   input, one output, the result of the step. *)
udp_stream_process(e) ==
    /\ udp.ops_left > 0
    /\ udp.els[e].state = "live"
    /\ \E in_len \in ProcessLens :
          IF in_len < 0
          THEN udp' = [udp EXCEPT !.ops_left = @ - 1,
                                  !.last = UdpDone("process", e, <<>>, "len",
                                                   Ret("bytes", in_len), "none")]
          ELSE IF udp.els[e].type = "reader"
          THEN \E ticks_to_wait \in ProcessTicks, period \in TickPeriods, w \in OutputResults :
                  \E r \in RecvOutcomesWithin(read_timeout(ticks_to_wait, period), in_len) :
                      udp' = [process_reader(e, in_len, ticks_to_wait, period, r, w)
                                 EXCEPT !.ops_left = @ - 1]
          ELSE \E r_size \in InputResults(in_len), outcome \in SendOutcomes :
                  udp' = [process_writer(e, in_len, r_size, outcome)
                             EXCEPT !.ops_left = @ - 1]
    /\ UNCHANGED <<sessionVars, bell, codec, frag>>

(* _udp_destroy: the closed element is freed. *)
udp_destroy(e) ==
    /\ udp.ops_left > 0
    /\ udp.els[e].state = "live"
    /\ ~udp.els[e].is_open
    /\ udp' = [udp EXCEPT !.els[e].state = "freed",
                          !.ops_left = @ - 1,
                          !.last = UdpDone("destroy", e, <<>>, "ok", Ret("ESP_OK", 0), "none")]
    /\ UNCHANGED <<sessionVars, bell, codec, frag>>

UdpNext ==
    \E e \in Elements :
        \/ udp_stream_init(e)
        \/ udp_open(e)
        \/ udp_close(e)
        \/ udp_stream_read(e)
        \/ udp_stream_write(e)
        \/ udp_stream_process(e)
        \/ udp_destroy(e)

UdpSpec == UdpInit /\ [][UdpNext]_vars

(* The operation that this step has run on element e. *)
UdpRan(op, e) ==
    /\ udp'.ops_left < udp.ops_left
    /\ udp'.last.op = op
    /\ udp'.last.el = e

(* The step made no socket call and changed no element and no socket. *)
UdpUntouched ==
    /\ udp'.last.io = <<>>
    /\ udp'.els = udp.els
    /\ udp'.socks = udp.socks

(* C14: open on an open element returns ESP_OK, makes no socket call and
   changes nothing; close on a closed element returns ESP_OK and changes
   nothing; every close returns ESP_OK and leaves sock = -1, is_open = false
   and the element's socket closed; read and write on a closed element return
   AEL_IO_FAIL with no socket call. *)
C14_OpenCloseIdempotent ==
    [][\A e \in Elements :
          /\ (UdpRan("open", e) /\ udp.els[e].is_open)
                => (udp'.last.ret = Ret("ESP_OK", 0) /\ UdpUntouched)
          /\ (UdpRan("close", e) /\ ~udp.els[e].is_open)
                => (udp'.last.ret = Ret("ESP_OK", 0) /\ UdpUntouched)
          /\ UdpRan("close", e)
                => /\ udp'.last.ret = Ret("ESP_OK", 0)
                   /\ udp'.els[e].sock = -1
                   /\ ~udp'.els[e].is_open
                   /\ udp.els[e].sock \notin udp'.socks
          /\ ((UdpRan("read", e) \/ UdpRan("write", e)) /\ ~udp.els[e].is_open)
                => (udp'.last.ret = Ret("AEL_IO_FAIL", 0) /\ UdpUntouched)
    ]_vars

(* C14 happens: an open element has been opened once more while it holds the
   only socket. *)
C14_Witness ==
    /\ udp.last.op = "open"
    /\ udp.last.was_open
    /\ udp.els[udp.last.el].is_open
    /\ Cardinality(udp.socks) = 1

(* a < b for two uint32_t values. *)
less_uint32(a, b) == a[2] < b[2] \/ (a[2] = b[2] /\ a[1] < b[1])

(* C15: for every writer, the sequence numbers in the headers of the packets
   it has transmitted start at 0 with its first packet and are strictly
   increasing. *)
C15_SequenceFromZero ==
    \A e \in Elements :
        LET sent == udp.els[e].sent
        IN  /\ sent # <<>> => sent[1] = <<0, 0>>
            /\ \A k \in 1 .. Len(sent) - 1 : less_uint32(sent[k], sent[k + 1])

(* C16: a read on an open reader makes one recvfrom; it returns the number of
   bytes of the datagram received, AEL_IO_TIMEOUT with no status reported when
   recvfrom timed out, and AEL_IO_FAIL on any other error of recvfrom; the
   input-error status is reported in that last case and in no other. *)
C16_ReadResults ==
    udp.last.op = "read" =>
        LET r == udp.last.recv
            timeout == r.errno \in {"EAGAIN", "EWOULDBLOCK"}
        IN  /\ udp.last.was_open =>
                  /\ udp.last.io = <<"setsockopt", "recvfrom">>
                  /\ r.bytes >= 0 => udp.last.ret = Ret("bytes", r.bytes)
                  /\ (r.bytes < 0 /\ timeout) => udp.last.ret = Ret("AEL_IO_TIMEOUT", 0)
                  /\ (r.bytes < 0 /\ ~timeout) => udp.last.ret = Ret("AEL_IO_FAIL", 0)
            /\ udp.last.reported = "AEL_STATUS_ERROR_INPUT"
                  <=> (udp.last.was_open /\ r.bytes < 0 /\ ~timeout)
            /\ udp.last.reported \in {"none", "AEL_STATUS_ERROR_INPUT"}

(* C16 happens: a read on an open reader has timed out, and the reader has
   no error status. *)
C16_Witness ==
    /\ udp.last.op = "read"
    /\ udp.last.was_open
    /\ udp.last.ret = Ret("AEL_IO_TIMEOUT", 0)
    /\ udp.els[udp.last.el].status = "none"

-----------------------------------------------------------------------------
(* Properties of the video streamer and of the media teardown *)

(* C17: video_manager_start_streaming called while the video streams returns
   ESP_OK and leaves video_info (destination, socket, frame id, flags) and the
   streaming task as they are; video_manager_stop_streaming called while the
   video does not stream returns ESP_OK and leaves them as they are. *)
C17_VideoNoOps ==
    [][\A i \in Slots :
          /\ (handler_pc[i] = "video_start" /\ handler_pc'[i] # "video_start"
              /\ video_info.is_streaming)
                => /\ video_info' = video_info
                   /\ video_pc' = video_pc
                   /\ handler_pc'[i] = "recv"
                   /\ start_ret'[i] = "ok"
          /\ (handler_pc[i] = "video_stop" /\ handler_pc'[i] # "video_stop"
              /\ ~video_info.is_streaming)
                => /\ video_info' = video_info
                   /\ video_pc' = video_pc
                   /\ handler_pc'[i] \in {"recv", "cleanup_give"}
    ]_vars

(* C17 happens: a start found the video streaming to another client and
   returned ESP_OK; the video still streams to that other client. *)
C17_Witness ==
    \E i \in Slots :
        /\ handler_pc[i] = "recv"
        /\ start_ret[i] = "ok"
        /\ clients[i].is_connected
        /\ video_info.is_streaming
        /\ video_info.remote_addr # clients[i].ip_address

(* The steps of the handler task of slot i that wait for nothing from its
   peer: everything but recv(). *)
HandlerRuns(i) ==
    \/ handle_request_talk(i)
    \/ handle_end_talk(i)
    \/ start_audio(i)
    \/ video_manager_start_streaming(i)
    \/ video_manager_create_task(i)
    \/ audio_cleanup(i)
    \/ video_manager_stop_streaming(i)
    \/ video_manager_stop_wait(i)
    \/ cleanup_client_check(i)
    \/ cleanup_client_give(i)
    \/ cleanup_client_release(i)
    \/ cleanup_client_close(i)

(* The session under the scheduler: a handler task that can run does run
   (the handlers are FreeRTOS tasks of one priority, run in turn).  Nothing
   is assumed of the peers, nor of the streaming task, which may stay in a
   camera call for ever. *)
FairSpec == Spec /\ \A i \in Slots : WF_vars(HandlerRuns(i))

(* C18: a video_manager_stop_streaming that found the video streaming and
   waits for the streaming task always comes to return, whatever the
   streaming task does. *)
C18_StopReturns ==
    \A i \in Slots : (handler_pc[i] = "video_wait") ~> (handler_pc[i] # "video_wait")

(* The pipelines audio_pipeline_cleanup calls audio_pipeline_terminate on:
   those whose handle is not NULL. *)
pipelines_terminated(info) ==
    {p \in {"pipeline_send", "pipeline_recv"} : info[p] # NULL}

(* Handler i runs, in this step, the step of _stop_audio_and_video it is at. *)
StopStep(i, label) ==
    /\ handler_pc[i] = label
    /\ handler_ctx[i] \in {"end_talk", "cleanup"}
    /\ handler_pc'[i] # label

(* C19: _stop_audio_and_video called with nothing running (both pipeline
   handles NULL, video not streaming) terminates no pipeline, changes no
   handle of the audio state and nothing of the video state, leaves
   everything stopped and returns to its caller. *)
C19_StopAllIdempotent ==
    [][\A i \in Slots :
          /\ (StopStep(i, "audio_cleanup") /\ pipelines_terminated(audio_info) = {})
                => /\ \A h \in AudioHandles : audio_info'[h] = audio_info[h]
                   /\ pipelines_terminated(audio_info') = {}
                   /\ video_info' = video_info
                   /\ video_pc' = video_pc
                   /\ handler_pc'[i] = "video_stop"
          /\ (StopStep(i, "video_stop") /\ MediaStopped)
                => /\ audio_info' = audio_info
                   /\ video_info' = video_info
                   /\ video_pc' = video_pc
                   /\ handler_pc'[i] \in {"recv", "cleanup_give"}
    ]_vars

(* C19 happens: a disconnecting holder whose session was never built is in
   _stop_audio_and_video: the audio cleanup has found nothing to terminate and
   the video stop finds the video idle. *)
C19_Witness ==
    \E i \in Slots :
        /\ handler_pc[i] = "video_stop"
        /\ handler_ctx[i] = "cleanup"
        /\ MediaStopped
        /\ \A h \in AudioHandles : audio_info[h] = NULL

(* Handler i is about to run a step of _start_audio_and_video_for_client or of
   _stop_audio_and_video. *)
InMediaCall(i) ==
    handler_pc[i] \in {"start_audio", "video_start", "video_task",
                       "audio_cleanup", "video_stop", "video_wait"}

(* C20: no handler runs a step of the start or of the stop of the Media
   Session, the wait for the streaming task included, while it holds
   talker_mutex. *)
C20_NoMediaCallUnderTalkerMutex ==
    \A i \in Slots : InMediaCall(i) => talker_mutex # i

-----------------------------------------------------------------------------
(* Properties of the client slots and of the handler loop *)

(* Handler i is in the _stop_audio_and_video of its _cleanup_client, or just
   back from it with talker_mutex still to give. *)
TearingDown(i) ==
    /\ handler_ctx[i] = "cleanup"
    /\ handler_pc[i] \in {"audio_cleanup", "video_stop", "video_wait", "cleanup_give"}

(* C21: in the cleanup of a client that holds the talk slot, the teardown of
   the media and then the release come before the socket is closed and the
   slot marked free: during the teardown the slot is connected and the client
   is still the holder; at the release the media are stopped; at the close
   the client is no longer the holder; a free slot is never the holder. *)
C21_TeardownBeforeSlotFree ==
    \A i \in Slots :
        /\ TearingDown(i)
              => (clients[i].is_connected /\ active_talker_index = i /\ talker_mutex = i)
        /\ handler_pc[i] = "cleanup_release"
              => (clients[i].is_connected /\ MediaStopped)
        /\ handler_pc[i] = "cleanup_close"
              => (clients[i].is_connected /\ active_talker_index # i)
        /\ ~clients[i].is_connected => active_talker_index # i

(* C21 happens: the holder has disconnected while its session ran; the media
   have been torn down, the release is next, and its slot is still connected. *)
C21_Witness ==
    \E i \in Slots :
        /\ handler_pc[i] = "cleanup_release"
        /\ active_talker_index = i
        /\ clients[i].is_connected
        /\ MediaStopped
        /\ video_info.frame_id > 0
        /\ audio_info.udp_writer # NULL

-----------------------------------------------------------------------------
(* The doorbell broadcast next to the sessions: broadcast_doorbell_ring is
   called from the button handler while the accept loop, the client handlers
   and the streaming task run.  It holds clients_mutex from its first step to
   its last; the steps of the others that take clients_mutex wait for it. *)

(* clients_mutex is not held by the broadcast. *)
ClientsMutexFree == bell.pc # "loop"

(* The steps of handler i that do not take clients_mutex. *)
RingHandlerFree(i) ==
    \/ \E command \in Commands : handler_recv_command(i, command)
    \/ \E recv_result \in {0, -1} : handler_recv_closed(i, recv_result)
    \/ handle_request_talk(i)
    \/ handle_end_talk(i)
    \/ video_manager_start_streaming(i)
    \/ video_manager_create_task(i)
    \/ audio_cleanup(i)
    \/ video_manager_stop_streaming(i)
    \/ video_manager_stop_wait(i)
    \/ cleanup_client_check(i)
    \/ cleanup_client_give(i)
    \/ cleanup_client_release(i)

(* The steps of handler i that begin by taking clients_mutex. *)
RingHandlerLocked(i) ==
    /\ ClientsMutexFree
    /\ \/ start_audio(i)
       \/ cleanup_client_close(i)

(* _add_new_client takes clients_mutex. *)
RingAccept == ClientsMutexFree /\ device_manager_accept

RingNext ==
    \/ \E i \in Slots : RingHandlerFree(i)
    \/ \E i \in Slots : RingHandlerLocked(i)
    \/ VideoTask
    \/ RingAccept
    \/ device_manager_reject
    \/ doorbell_take
    \/ doorbell_turn
    \/ doorbell_give

(* One connection budget, enough for a talk and a teardown next to a ring. *)
RingBudgets == { <<TalkConns, TalkCmds - 1>> }

RingInit ==
    /\ SessionInit(RingBudgets)
    /\ bell = BellIdle
    /\ codec = CodecIdle
    /\ frag = FragIdle
    /\ udp = UdpIdle

RingSpec == RingInit /\ [][RingNext]_vars

(* C22: the broadcast is never kept waiting by the talk arbitration: whoever
   holds the talk slot or talker_mutex, it can start and, once started, take
   its next step; its steps change neither active_talker_index nor
   talker_mutex nor any client slot; when it ends it has sent to every
   connected slot. *)
C22_BroadcastApartFromTalk ==
    /\ [](bell.pc = "idle" => ENABLED doorbell_take)
    /\ [](bell.pc = "loop" => ENABLED (doorbell_turn \/ doorbell_give))
    /\ [][bell' # bell =>
             /\ active_talker_index' = active_talker_index
             /\ talker_mutex' = talker_mutex
             /\ clients' = clients
             /\ bell'.pc = "done" =>
                   {bell.sends[k].slot : k \in 1 .. Len(bell.sends)}
                       = {i \in Slots : clients[i].is_connected}]_vars

(* C22 happens: a broadcast has sent to a connected client and ended while
   the handler of the disconnected holder holds talker_mutex in its teardown. *)
C22_Witness ==
    /\ bell.pc = "done"
    /\ Len(bell.sends) >= 1
    /\ \E i \in Slots : talker_mutex = i /\ TearingDown(i) /\ active_talker_index = i

(* C23: a REQUEST_TALK processed while another client holds the slot is
   answered DENY_TALK and the handler goes back to recv() with no call of
   the Media Session: active_talker_index, the audio state (pipeline
   handles, remote address), the video streamer and its task are unchanged. *)
C23_DeniedRequestTouchesNothing ==
    [][\A i \in Slots :
        (RequestProcessed(i) /\ active_talker_index \notin {INACTIVE_CLIENT_INDEX, i})
        => /\ last_reply'[i] = CMD_DENY_TALK
           /\ handler_pc'[i] = "recv"
           /\ start_ret'[i] = "none"
           /\ UNCHANGED <<active_talker_index, talker_mutex, audio_info, video_info,
                          video_pc, clients>>]_vars

(* C23 happens: a client has been denied and is back at recv() while the
   holder's session runs, the video streaming to the holder. *)
C23_Witness ==
    \E i, j \in Slots :
        /\ i # j
        /\ handler_pc[i] = "recv"
        /\ last_reply[i] = CMD_DENY_TALK
        /\ active_talker_index = j
        /\ video_info.is_streaming
        /\ video_info.remote_addr = clients[j].ip_address
        /\ audio_info.pipeline_send # NULL

(* C24: the last step of _cleanup_client leaves the slot free with every
   field reset and the handler gone; a handler that is gone answers nothing
   and comes back only as the handler of a connection that the accept loop
   places in the slot, the lowest free one; a slot is connected exactly when
   its handler exists. *)
C24_SlotLifecycle ==
    /\ [](\A i \in Slots : clients[i].is_connected <=> handler_pc[i] # "none")
    /\ [][\A i \in Slots :
            /\ (handler_pc[i] = "cleanup_close" /\ handler_pc'[i] # "cleanup_close")
                  => /\ clients'[i] = FreeClient
                     /\ handler_pc'[i] = "none"
            /\ handler_pc[i] = "none"
                  => /\ last_reply'[i] = last_reply[i]
                     /\ handler_pc'[i] \in {"none", "recv"}
                     /\ handler_pc'[i] = "recv"
                           => /\ conns_left' = conns_left - 1
                              /\ \A j \in FreeSlots : i <= j
                              /\ clients'[i].is_connected
                              /\ clients'[i].socket = NextSock
                              /\ clients'[i].task_handle # NULL]_vars

(* C24 happens: a client that had talked is cleaned up, every slot is free
   and reset, and the accept loop can still place a connection. *)
C24_Witness ==
    /\ video_info.frame_id >= 1
    /\ \A i \in Slots : clients[i] = FreeClient /\ handler_pc[i] = "none"
    /\ accept_pc = "accept"
    /\ conns_left >= 1

(* Handler i is in _cleanup_client. *)
InCleanup(i) ==
    \/ handler_pc[i] \in {"cleanup_check", "cleanup_give", "cleanup_release", "cleanup_close"}
    \/ handler_ctx[i] = "cleanup"

(* Handler i is in _handle_client_command. *)
InDispatch(i) ==
    /\ ~InCleanup(i)
    /\ handler_pc[i] \notin {"recv", "none"}

(* C25: a step out of recv() either dispatches one command (recv() > 0), to
   the one handler that received it, or enters _cleanup_client (recv() <= 0);
   _handle_client_command returns to recv() and nowhere else;
   _cleanup_client is entered from recv() only, is not left before its end,
   and its end is the end of the handler. *)
C25_HandlerLoop ==
    [][/\ cmds_left' # cmds_left
            => /\ cmds_left' = cmds_left - 1
               /\ \E i \in Slots :
                     /\ handler_pc[i] = "recv"
                     /\ handler_pc'[i] \in {"recv", "request_talk", "end_talk"}
                     /\ \A j \in Slots \ {i} : handler_pc'[j] = handler_pc[j]
       /\ \A i \in Slots :
            /\ (handler_pc[i] = "recv" /\ handler_pc'[i] # "recv" /\ cmds_left' = cmds_left)
                  => handler_pc'[i] = "cleanup_check"
            /\ (InDispatch(i) /\ handler_pc'[i] # handler_pc[i])
                  => (InDispatch(i)' \/ handler_pc'[i] = "recv")
            /\ (InCleanup(i)' /\ ~InCleanup(i))
                  => (handler_pc[i] = "recv" /\ handler_pc'[i] = "cleanup_check")
            /\ (InCleanup(i) /\ handler_pc'[i] # handler_pc[i])
                  => (InCleanup(i)' \/ handler_pc'[i] = "none")
            /\ (handler_pc'[i] = "none" /\ handler_pc[i] # "none")
                  => handler_pc[i] = "cleanup_close"]_vars

(* C25 happens: one handler has dispatched a command and is back at recv(),
   another, in a lower slot (so connected before it), has got a result <= 0
   from recv() and has run its cleanup to the end. *)
C25_Witness ==
    \E i, j \in Slots :
        /\ handler_pc[i] = "recv"
        /\ last_reply[i] = CMD_OPEN_DOOR
        /\ handler_pc[j] = "none"
        /\ clients[j] = FreeClient
        /\ i > j

(* C26: a handler at recv() can always take OPEN_DOOR and an unknown value,
   whoever holds the talk slot; OPEN_DOOR is answered with OPEN_DOOR, an
   unknown value with nothing; both leave active_talker_index, talker_mutex,
   the ClientSlot table and the media session as they were, send nothing to
   the other clients, and leave the handler at recv(). *)
C26_OtherCommandsChangeNothing ==
    /\ [](\A i \in Slots : (handler_pc[i] = "recv" /\ cmds_left > 0)
            => /\ ENABLED handler_recv_command(i, CMD_OPEN_DOOR)
               /\ ENABLED handler_recv_command(i, CMD_UNKNOWN))
    /\ [][\A i \in Slots :
            /\ handler_recv_command(i, CMD_OPEN_DOOR) => last_reply'[i] = CMD_OPEN_DOOR
            /\ handler_recv_command(i, CMD_UNKNOWN) => last_reply'[i] = NO_REPLY
            /\ (handler_recv_command(i, CMD_OPEN_DOOR) \/ handler_recv_command(i, CMD_UNKNOWN))
                  => /\ handler_pc'[i] = "recv"
                     /\ handler_pc' = handler_pc
                     /\ \A j \in Slots \ {i} : last_reply'[j] = last_reply[j]
                     /\ UNCHANGED <<active_talker_index, talker_mutex, clients,
                                    audio_info, video_info, video_pc>>]_vars

(* C26 happens: a client that does not hold the talk slot has its OPEN_DOOR
   echoed while another client holds the slot and streams. *)
C26_Witness ==
    \E i, j \in Slots :
        /\ i # j
        /\ handler_pc[i] = "recv"
        /\ last_reply[i] = CMD_OPEN_DOOR
        /\ active_talker_index = j
        /\ video_info.is_streaming
        /\ audio_info.udp_writer # NULL

(* C27: video_manager_start_streaming starts every session at frame id 0:
   the step that takes the streamer from idle to streaming leaves
   video_info.frame_id = 0, which is the id _video_manager_send_frame gives
   to the session's first frame. *)
C27_StartResetsFrameId ==
    [][(~video_info.is_streaming /\ video_info'.is_streaming)
          => video_info'.frame_id = 0]_vars

(* C28: a tick in which esp_camera_fb_get() gave no frame buffer sends no
   packet and reads nothing through the buffer (no length, no data), returns
   to the streaming task, and the task goes on to its next tick. *)
C28_CaptureFailureNotFatal ==
    frag.fb = "null" =>
        /\ frag.pc = "done"
        /\ frag.packets = <<>>
        /\ frag.total_packets = 0

(* The tick has a frame: esp_camera_fb_get() gave a buffer. *)
FrameCaptured == frag.fb \in {"held", "returned"}

(* C29 as stated, for the frame ids: the frame of the next tick has a frame
   id one greater than, and so above, the id of the frame before it. *)
C29_FrameIdsStrictlyIncrease ==
    [][(frag.pc = "done" /\ frag'.pc = "capture")
          => less_uint32(frag.current_frame_id, frag'.current_frame_id)]_vars

(* C29, with the frame id a uint32_t: for every captured frame the packets
   sent carry the fragment-seq values below the loop counter, so none at or
   above the fragment whose send failed; the frame buffer is held through
   the loop and returned exactly once when the function returns, on the
   failure path and on the full path; after a failed send no further packet
   of the frame follows; the next frame has the frame id one greater modulo
   2^32, which is a greater id except on the step from 4294967295 to 0. *)
C29_FrameSendAndIds ==
    /\ [](FrameCaptured =>
            /\ Len(frag.packets) = frag.packet_seq
            /\ frag.packet_seq <= frag.total_packets
            /\ \A k \in 1 .. Len(frag.packets) :
                  /\ FragSent(k).fragSeq < frag.packet_seq
                  /\ FragSent(k).frameId = frag.current_frame_id
            /\ frag.pc = "loop" => (frag.fb = "held" /\ frag.fb_returns = 0)
            /\ frag.pc = "done" => (frag.fb = "returned" /\ frag.fb_returns = 1)
            /\ frag.ret = "ESP_OK" => frag.packet_seq = frag.total_packets
            /\ frag.ret = "ESP_FAIL" => frag.packet_seq < frag.total_packets)
    /\ [][(frag.pc = "done" /\ frag' # frag)
            => LET id == frag.current_frame_id
                   next == frag'.current_frame_id
               IN  /\ frag'.pc = "capture"
                   /\ frag'.packets = <<>>
                   /\ frag'.fb = "none"
                   /\ next = IF id[1] < 65535 THEN <<id[1] + 1, id[2]>>
                             ELSE <<0, (id[2] + 1) % 65536>>
                   /\ id # <<65535, 65535>> => less_uint32(id, next)
                   /\ id = <<65535, 65535>> => next = <<0, 0>>]_vars

(* C29 happens: the first frame had id 0; the second frame, with id 1, lost
   the send of its fragment 1 after fragment 0 was sent, and its buffer has
   been returned. *)
C29_Witness ==
    /\ frag.ticks = 2
    /\ frag.current_frame_id = <<1, 0>>
    /\ frag.pc = "done"
    /\ frag.ret = "ESP_FAIL"
    /\ frag.total_packets = 3
    /\ Len(frag.packets) = 1
    /\ FragSent(1).fragSeq = 0
    /\ frag.fb = "returned"
    /\ frag.fb_returns = 1

(* C30: every packet of a frame carries at least 1 and at most 1381 payload
   bytes, so at most 1400 bytes with its 19-byte header; every packet but the
   last of the frame carries exactly 1381; the length field of the header is
   the payload length handed to sendmsg; the payload of the first packet
   starts at byte 0 of the frame and each next one starts where the one
   before ended; and when no send failed the last one ends at byte F. *)
C30_FragmentPayloads ==
    \A k \in 1 .. Len(frag.packets) :
        LET p == frag.packets[k]
        IN  /\ p.iov_len >= 1
            /\ p.iov_len <= 1381
            /\ Len(p.header) = 19
            /\ Len(p.header) + p.iov_len <= 1400
            /\ k < frag.total_packets => p.iov_len = 1381
            /\ FragSent(k).fragLen = p.iov_len
            /\ p.offset = IF k = 1 THEN 0
                          ELSE frag.packets[k - 1].offset + frag.packets[k - 1].iov_len
            /\ p.offset + p.iov_len <= frag.len
            /\ (frag.ret = "ESP_OK" /\ k = Len(frag.packets))
                  => p.offset + p.iov_len = frag.len

(* C30 happens: a frame of 1382 bytes has been sent whole, in one packet of
   1381 payload bytes and one of 1. *)
C30_Witness ==
    /\ frag.fb = "returned"
    /\ frag.ret = "ESP_OK"
    /\ frag.len = 1382
    /\ Len(frag.packets) = 2
    /\ frag.packets[1].iov_len = 1381
    /\ frag.packets[2].offset = 1381
    /\ frag.packets[2].iov_len = 1

-----------------------------------------------------------------------------
(* Properties of the write and read callbacks of the UDP element *)

(* C31: a write on an open writer with len above the writer's buffer_len
   hands sendmsg exactly buffer_len payload bytes and a header whose length
   field is buffer_len; with 0 < len <= buffer_len it hands sendmsg exactly
   len payload bytes and a header whose length field is len; the payload
   handed over is never longer than the len given nor than buffer_len. *)
C31_WriteTruncates ==
    (udp.last.op = "write" /\ udp.last.io = <<"sendmsg">>) =>
        LET m == udp.last.msg
            field == decodeAudioHeader(m.header).len
        IN  /\ m.given > 0
            /\ m.given > 324 => (m.iov_len = 324 /\ field = 324)
            /\ m.given <= 324 => (m.iov_len = m.given /\ field = m.given)
            /\ m.iov_len <= m.given
            /\ m.iov_len <= 324
            /\ udp.last.outcome = "ok" => udp.last.ret = Ret("bytes", 15 + m.iov_len)

(* C31 happens: a write of 325 bytes has been sent as a packet of 324 payload
   bytes. *)
C31_Witness ==
    /\ udp.last.op = "write"
    /\ udp.last.outcome = "ok"
    /\ udp.last.msg.given = 325
    /\ udp.last.msg.iov_len = 324
    /\ decodeAudioHeader(udp.last.msg.header).len = 324

(* C32: a write whose sendmsg fails with ENOMEM returns the payload length,
   reports no status, and sends nothing: the element, its status and the
   packet counter are as before; a write whose sendmsg fails with any other
   errno returns AEL_IO_FAIL and reports AEL_STATUS_ERROR_OUTPUT. *)
C32_WriteSendFailure ==
    /\ []((udp.last.op = "write" /\ udp.last.io = <<"sendmsg">> /\ udp.last.outcome # "ok")
            => IF udp.last.outcome = "ENOMEM"
               THEN /\ udp.last.ret = Ret("bytes", udp.last.msg.iov_len)
                    /\ udp.last.msg.iov_len > 0
                    /\ udp.last.reported = "none"
               ELSE /\ udp.last.ret = Ret("AEL_IO_FAIL", 0)
                    /\ udp.last.reported = "AEL_STATUS_ERROR_OUTPUT"
                    /\ udp.els[udp.last.el].status = "AEL_STATUS_ERROR_OUTPUT")
    /\ [][\A e \in Elements :
            (UdpRan("write", e) /\ udp'.last.outcome = "ENOMEM")
               => /\ udp'.els = udp.els
                  /\ udp'.sequence_number = udp.sequence_number
                  /\ udp'.socks = udp.socks]_vars

(* C32 happens: a writer that has sent one packet has had its next send fail
   with ENOMEM; it has no error status and the write returned 324. *)
C32_Witness ==
    /\ udp.last.op = "write"
    /\ udp.last.outcome = "ENOMEM"
    /\ udp.last.ret = Ret("bytes", 324)
    /\ udp.els[udp.last.el].status = "none"
    /\ Len(udp.els[udp.last.el].sent) = 1
    /\ udp.sequence_number = <<1, 0>>

(* C33: every read on an open reader sets a receive timeout that is finite
   and strictly positive, whatever ticks_to_wait it is given. *)
C33_ReadWaitPositive ==
    (udp.last.op = "read" /\ udp.last.io = <<"setsockopt", "recvfrom">>)
        => (udp.last.timeout.tv_sec > 0 \/ udp.last.timeout.tv_usec > 0)

(* C34: in a process step with in_len >= 0, a timeout of the input makes the
   element output in_len zero bytes, and the step returns what that output
   returns: a positive count when the output succeeds, never the timeout of
   the input; an input of r > 0 bytes makes it output exactly those r bytes;
   any other input result (the codes other than the timeout, and 0) is
   returned as the result of the step with nothing output. *)
C34_ProcessAbsorbsTimeout ==
    (udp.last.op = "process" /\ udp.last.outcome # "len") =>
        LET l == udp.last
        IN  /\ l.r_size = Ret("AEL_IO_TIMEOUT", 0)
                => /\ l.out.len = 324
                   /\ l.out.fill = "zeros"
                   /\ l.out.result # "none"
                   /\ l.out.result \in {"ok", "ENOMEM"} => (l.ret.code = "bytes" /\ l.ret.n > 0)
            /\ (l.r_size.code = "bytes" /\ l.r_size.n > 0)
                => /\ l.out.len = l.r_size.n
                   /\ l.out.fill = "input"
                   /\ l.out.result # "none"
            /\ (l.r_size.code # "AEL_IO_TIMEOUT" /\ ~(l.r_size.code = "bytes" /\ l.r_size.n > 0))
                => /\ l.out = NoOut
                   /\ l.ret = l.r_size

(* C34 happens: an open reader whose recvfrom timed out has put 324 zero
   bytes into its output and the step has returned 324; the element has no
   error status. *)
C34_Witness ==
    /\ udp.last.op = "process"
    /\ udp.last.was_open
    /\ udp.els[udp.last.el].type = "reader"
    /\ udp.last.recv.errno = "EAGAIN"
    /\ udp.last.r_size = Ret("AEL_IO_TIMEOUT", 0)
    /\ udp.last.out = [len |-> 324, fill |-> "zeros", result |-> "ok"]
    /\ udp.last.ret = Ret("bytes", 324)
    /\ udp.els[udp.last.el].status = "none"

-----------------------------------------------------------------------------
(* Properties of the session under interleaving *)

(* C35: active_talker_index is the sentinel or the index of a slot that is
   connected and whose handler task exists. *)
C35_HolderIsLiveClient ==
    active_talker_index # INACTIVE_CLIENT_INDEX
        => /\ active_talker_index \in Slots
           /\ clients[active_talker_index].is_connected
           /\ clients[active_talker_index].task_handle # NULL
           /\ handler_pc[active_talker_index] # "none"

(* C35 happens: a client that held the talk slot has been cleaned up and its
   slot is free; the talk slot is now held by another, connected client. *)
C35_Witness ==
    \E i, j \in Slots :
        /\ j < i
        /\ clients[j] = FreeClient
        /\ handler_pc[j] = "none"
        /\ video_info.frame_id >= 1
        /\ active_talker_index = i
        /\ clients[i].is_connected
        /\ handler_pc[i] = "recv"
        /\ last_reply[i] = CMD_GRANT_TALK

(* C36: a client that holds the talk slot, whose start of the media session
   has returned success and who has sent nothing since, has the session
   running and bound to its address: both pipelines exist with its address
   and the video streams to its address. *)
C36_SessionStaysWithHolder ==
    \A b \in Slots :
        (active_talker_index = b /\ start_ret[b] = "ok" /\ handler_pc[b] = "recv")
            => /\ audio_info.pipeline_send # NULL
               /\ audio_info.pipeline_recv # NULL
               /\ audio_info.remote_addr = clients[b].ip_address
               /\ video_info.is_streaming
               /\ video_info.remote_addr = clients[b].ip_address

(* Handler i is at a call that takes talker_mutex. *)
WaitsForTalkerMutex(i) ==
    handler_pc[i] \in {"request_talk", "end_talk", "cleanup_check", "cleanup_release"}

(* Handler i is at a call that takes clients_mutex. *)
WaitsForClientsMutex(i) == handler_pc[i] \in {"start_audio", "cleanup_close"}

(* C37: the owner of talker_mutex is at no call that takes clients_mutex or
   talker_mutex, and it can take its next step, or it waits in the video stop
   for the streaming task (or for the handler that is about to create it),
   which can take theirs: they need video_info_mutex only; the broadcast,
   which holds clients_mutex over its sends, can always take its next step
   and takes no other mutex; a handler that is back at recv() or has ended
   does not own talker_mutex. *)
C37_NoMutexDeadlock ==
    /\ [](\A i \in Slots :
            talker_mutex = i
               => /\ ~WaitsForClientsMutex(i)
                  /\ ~WaitsForTalkerMutex(i)
                  /\ \/ ENABLED RingHandlerFree(i)
                     \/ /\ handler_pc[i] = "video_wait"
                        /\ \/ ENABLED VideoTask
                           \/ \E j \in Slots \ {i} : ENABLED video_manager_create_task(j))
    /\ [](bell.pc = "loop" => ENABLED (doorbell_turn \/ doorbell_give))
    /\ [][bell' # bell => talker_mutex' = talker_mutex]_vars
    /\ [](\A i \in Slots : handler_pc[i] \in {"recv", "none"} => talker_mutex # i)
    /\ [](talker_mutex # NO_OWNER => talker_mutex \in Slots)

(* C37 happens: a handler holds talker_mutex in the video stop of its cleanup
   while the broadcast holds clients_mutex and another handler is at a call
   that takes clients_mutex. *)
C37_Witness ==
    \E i, j \in Slots :
        /\ i # j
        /\ talker_mutex = i
        /\ handler_pc[i] \in {"video_stop", "video_wait"}
        /\ bell.pc = "loop"
        /\ WaitsForClientsMutex(j)

(* The streaming task is inside its loop: at the stop_requested check or in
   _video_manager_send_frame, where it captures and sends. *)
InStreamingLoop == video_pc \in {"loop", "frame"}

(* C38: when the wait of video stop returns, the streaming task has left its
   loop and ended, so it captures and sends nothing more; a streaming task
   exists only while is_streaming is set, and a start creates a task only
   when none exists, so two are never inside the loop, also when the start
   follows the stop at once. *)
C38_StopEndsTheTask ==
    /\ [][\A i \in Slots :
            (handler_pc[i] = "video_wait" /\ handler_pc'[i] # "video_wait")
                => /\ video_pc = "none"
                   /\ video_pc' = "none"
                   /\ video_info'.frame_id = video_info.frame_id]_vars
    /\ []((InStreamingLoop \/ video_pc = "exit") => video_info.is_streaming)
    /\ [](\A i \in Slots : handler_pc[i] = "video_task" => video_pc = "none")
    /\ [][video_info'.frame_id # video_info.frame_id
            => (video_pc = "frame" /\ video_info.is_streaming)]_vars

(* C38 happens: a stop requested in the Streaming state is at the end of its
   wait, the old task has sent a frame and has ended, and the handler of the
   next holder is already at its video start. *)
C38_Witness ==
    \E a, b \in Slots :
        /\ a # b
        /\ handler_pc[a] = "video_wait"
        /\ video_info.stop_requested
        /\ ~video_info.is_streaming
        /\ video_pc = "none"
        /\ video_info.frame_id > 0
        /\ handler_pc[b] = "video_start"

(* C39: a REQUEST_TALK of the client that holds the slot is answered
   DENY_TALK and its handler goes back to recv() with no call of the Media
   Session: the holder, the audio state, the video streamer and its task are
   unchanged; an END_TALK of the holder, after that as before, releases the
   slot and is answered TALK_ENDED. *)
C39_HolderRequestDenied ==
    /\ [][\A i \in Slots :
            (RequestProcessed(i) /\ active_talker_index = i)
            => /\ last_reply'[i] = CMD_DENY_TALK
               /\ handler_pc'[i] = "recv"
               /\ start_ret'[i] = "none"
               /\ active_talker_index' = i
               /\ UNCHANGED <<talker_mutex, audio_info, video_info, video_pc,
                              clients>>]_vars
    /\ [][\A i \in Slots :
            (EndTalkProcessed(i) /\ active_talker_index = i)
            => /\ last_reply'[i] = CMD_TALK_ENDED
               /\ active_talker_index' = INACTIVE_CLIENT_INDEX
               /\ handler_pc'[i] = "audio_cleanup"]_vars

(* C39 happens: the holder has been denied its own second request and is
   back at recv() as the holder, its session running, with a command still
   to come. *)
C39_Witness ==
    \E i \in Slots :
        /\ active_talker_index = i
        /\ last_reply[i] = CMD_DENY_TALK
        /\ handler_pc[i] = "recv"
        /\ cmds_left > 0
        /\ audio_info.pipeline_send # NULL
        /\ audio_info.remote_addr = clients[i].ip_address
        /\ video_info.is_streaming
        /\ video_info.remote_addr = clients[i].ip_address

(* The broadcast attempts a send in this step. *)
DoorbellSendMade == Len(bell'.sends) = Len(bell.sends) + 1

(* C40: whatever the accept loop, the handlers and their cleanups do around
   the broadcast, every doorbell send is made to a slot that is connected in
   the state in which it is made, on that slot's current socket: the slot's
   fields have not been reset, its handler exists and has not closed the
   socket, and the socket is not one that the accept loop is about to close
   after a failed _add_new_client; while the broadcast is in its loop no
   slot changes. *)
C40_DoorbellOnlyToConnected ==
    /\ [][DoorbellSendMade =>
            LET s == bell'.sends[Len(bell'.sends)] IN
            /\ s.slot \in Slots
            /\ clients[s.slot].is_connected
            /\ clients'[s.slot].is_connected
            /\ s.socket = clients[s.slot].socket
            /\ s.socket # FreeClient.socket
            /\ clients[s.slot].ip_address # FreeClient.ip_address
            /\ handler_pc[s.slot] # "none"
            /\ accept_pc = "reject" => s.socket # client_sock.sock]_vars
    /\ [][bell.pc = "loop" => clients' = clients]_vars
    /\ [](\A i \in Slots : clients[i].is_connected => handler_pc[i] # "none")

(* C40 happens: the broadcast has been through the table with one send, to a
   slot whose handler waits at the end of its cleanup for clients_mutex,
   and has passed a slot given back after a failed handler creation, whose
   socket is left in it for the accept loop to close. *)
C40_Witness ==
    /\ bell.pc = "loop"
    /\ bell.i = MAX_CLIENTS
    /\ Len(bell.sends) = 1
    /\ handler_pc[bell.sends[1].slot] = "cleanup_close"
    /\ accept_pc = "reject"
    /\ \E j \in Slots :
          /\ ~clients[j].is_connected
          /\ clients[j].socket = client_sock.sock

====
